---- MODULE Spec2Model ----
(***************************************************************************)
(* storacha/ucan-kms: the two request pipelines (key decryption and        *)
(* encryption setup), the UCAN validation service and the revocation       *)
(* status client, as a state machine.                                      *)
(*                                                                         *)
(* One request is followed from the entry point to its response.  The      *)
(* proofs of an invocation are content-addressed: `blocks` maps each CID   *)
(* to the proof stored under it.                                           *)
(***************************************************************************)
EXTENDS Integers, Sequences, FiniteSets, TLC

VARIABLES
  entry,              \* the entry point this request came in through
  now,                \* Math.floor(Date.now() / 1000) while the request runs
  blocks,             \* CID -> proof (a Delegation, or a bare Link)
  invocation,         \* the invocation: issuer, capabilities, proofs
  request,            \* request.space, request.encryptedSymmetricKey
  env,                \* env.UPLOAD_SERVICE_URL
  ctx,                \* which collaborators the context holds
  pc,                 \* position of the handler
  calls,              \* collaborators called so far, in call order
  response,           \* what the entry point returned
  validationResult,   \* result of validateEncryption / validateDecryption
  planResult,         \* how isProvisioned ended: "none", "ok", "error", "throw"
  auditLog,           \* invocation events the handler sent to the audit log
  rpc,                \* position of verifyDelegationChain
  decryptStart,       \* the `decryptDelegations` the traversal started from
  chainDelegations,   \* delegations collected by the traversal
  revocationQueue,    \* PQueue: tasks added and not yet started
  pending,            \* PQueue: tasks started and not yet settled
  issued,             \* CIDs for which an HTTP request left for the oracle
  responses,          \* CID -> how its checkCID fetch ended
  completed,          \* `completed` counter of the race promise
  aborted,            \* abortController.signal.aborted
  raceResult,         \* what racePromise resolved to (first resolve wins)
  revocationResult,   \* result of RevocationStatusClientImpl.checkStatus
  authConfig,         \* GoogleKMSService: [type, keyOk] from _setupAuthentication
  backend,            \* Google KMS: the PEM of the space's key, or "none"
  script,             \* the answers the publicKey endpoint is going to give
  kpc,                \* position of the GoogleKMSService method
  kcall,              \* which call of the service this is (1, 2)
  lookupStatus,       \* status of the existence check of this call
  createStatus,       \* status of the create-key request of this call
  keyPath,            \* "none", "existing" (key found) or "created"
  createRequests,     \* POST .../cryptoKeys requests sent in this call
  attempts,           \* publicKey fetch attempts started in this call
  lastFetch,          \* how the last publicKey fetch attempt ended
  notFound,           \* publicKey fetch attempts of this call answered 404
  kclock,             \* seconds since _fetchAndValidatePublicKey started
  secure,             \* SecureStrings created and not disposed
  kmsResults,         \* the results of the calls that returned, in order
  keyName,            \* the key id the requests of this call are made with
  keyData,            \* how GET .../cryptoKeys/{id} of _getPrimaryKeyVersion ended
  versionsData,       \* the answer to GET .../cryptoKeyVersions
  version,            \* the key version _getPrimaryKeyVersion returned
  decryptRequests,    \* POST ...:asymmetricDecrypt requests sent in this call
  integrity,          \* how the integrity check of the fetched public key ended
  UCAN_VALIDATOR_PROOF,  \* env.UCAN_VALIDATOR_PROOF: "none", "valid", "invalid"
  cachedValidatorProofs, \* server.js: the module-level cache
  spc,                \* request -> position in createServer
  validatorProofs,    \* request -> what getValidatorProofs returned to it
  chainQueue,         \* verifyDelegationChain: `queue` of the first pass
  chainVisited,       \* verifyDelegationChain: `visited`
  symmetricKey,       \* the bytes a client encrypted under the space's key
  plaintext,          \* result.plaintext of the asymmetricDecrypt response
  decryptedKey,       \* what decryptSymmetricKey returned
  cpc,                \* position of decryptSymmetricKey after its fetch
  setups,             \* request -> position and result of its setupKeyForSpace
  ucanKmsIdentity,    \* index.js: the identity of the service, handed to the validator
  accessAuthority     \* the `authority` option of the access() call of the request

inputVars == <<entry, now, blocks, invocation, request, env, ctx>>
handlerVars == <<pc, calls, response, validationResult, planResult, auditLog>>
revocationVars == <<rpc, decryptStart, chainDelegations, revocationQueue, pending, issued,
                    responses, completed, aborted, raceResult, revocationResult>>
versionVars == <<keyName, keyData, versionsData, version, decryptRequests>>
kmsVars == <<authConfig, backend, script, kpc, kcall, lookupStatus, createStatus, keyPath,
             createRequests,
             attempts, lastFetch, notFound, kclock, secure, kmsResults, versionVars, integrity>>
serverVars == <<UCAN_VALIDATOR_PROOF, cachedValidatorProofs, spc, validatorProofs>>
traversalVars == <<chainQueue, chainVisited>>
codecVars == <<symmetricKey, plaintext, decryptedKey, cpc>>
raceVars == <<setups>>
accessVars == <<ucanKmsIdentity, accessAuthority>>
vars == <<inputVars, handlerVars, revocationVars, kmsVars, serverVars, traversalVars,
         codecVars, raceVars, accessVars>>

----------------------------------------------------------------------------
(* Bounds of the model *)

MaxTime == 2

----------------------------------------------------------------------------
(* Identifiers.  A DID is kept as its colon-separated segments, so that     *)
(* String.startsWith('did:key:') is a test on the leading segments.         *)

DidKey(id) == <<"did", "key", id>>
DidWeb(host) == <<"did", "web", host>>

SpaceA == DidKey("spaceA")
SpaceB == DidKey("spaceB")
ServiceDID == DidWeb("up.storacha.network")

Alice == DidKey("alice")
Bob == DidKey("bob")

startsWithDidKey(w) == Len(w) >= 2 /\ w[1] = "did" /\ w[2] = "key"

\* Capability names (@storacha/capabilities/space)
EncryptionSetupCan == "space/encryption/setup"
EncryptionKeyDecryptCan == "space/encryption/key/decrypt"
ContentDecryptCan == "space/content/decrypt"
PlanGetCan == "plan/get"

Cap(can, with) == [can |-> can, with |-> with]

\* A proof of an invocation is a Delegation or a Link (a CID whose block
\* was not sent along).
Delegation(capabilities, expiration, audience, proofs) ==
  [isDelegation |-> TRUE, capabilities |-> capabilities,
   expiration |-> expiration, audience |-> audience, proofs |-> proofs]

Link == [isDelegation |-> FALSE]

isDelegation(proof) == proof.isDelegation

\* Array.prototype.find / filter / some over a sequence
RECURSIVE FindFirst(_, _, _)
FindFirst(s, Test(_), i) ==
  IF i > Len(s) THEN 0
  ELSE IF Test(s[i]) THEN i
  ELSE FindFirst(s, Test, i + 1)

Filter(s, Test(_)) == SelectSeq(s, Test)

Some(s, Test(_)) == \E i \in 1..Len(s) : Test(s[i])

Ok == [ok |-> TRUE, message |-> "", chosen |-> "none"]
Failure(message) == [ok |-> FALSE, message |-> message, chosen |-> "none"]

----------------------------------------------------------------------------
(* UcanPrivacyValidationServiceImpl *)

\* Fault: validateEncryption without the comparison of `with` and the space
validateEncryption_anySpace(inv, spaceDID) ==
  IF FindFirst(inv.capabilities, LAMBDA cap : cap.can = EncryptionSetupCan, 1) = 0
    THEN Failure("Encryption validation failed")
    ELSE Ok

\* validateEncryption: both failures are thrown inside the try block and
\* come back from the catch block with the generic message.
validateEncryption(inv, spaceDID) ==
  LET i == FindFirst(inv.capabilities,
                     LAMBDA cap : cap.can = EncryptionSetupCan, 1)
  IN IF i = 0 THEN Failure("Encryption validation failed")
     ELSE IF inv.capabilities[i].with # spaceDID
       THEN Failure("Encryption validation failed")
     ELSE Ok

\* Fault: the filter with `expiration >= now`
hasContentDecrypt_inclusive(proof, spaceDID, t) ==
  /\ isDelegation(proof)
  /\ proof.expiration >= t
  /\ Some(proof.capabilities,
          LAMBDA capability : /\ capability.can = ContentDecryptCan
                              /\ capability.with = spaceDID)

\* The filter of validateDecryption over invocation.proofs: a Link has no
\* expiration, and `undefined > now` is false.
hasContentDecrypt(proof, spaceDID, t) ==
  /\ isDelegation(proof)
  /\ proof.expiration > t
  /\ Some(proof.capabilities,
          LAMBDA capability : /\ capability.can = ContentDecryptCan
                              /\ capability.with = spaceDID)

contentDecryptProofs(inv, spaceDID, t) ==
  Filter(inv.proofs, LAMBDA cid : hasContentDecrypt(blocks[cid], spaceDID, t))

\* Fault: no comparison of issuer and audience
invokerIsAudience_unchecked(inv, decryptDelegation) == TRUE

\* invocation.issuer.did() !== decryptDelegation.audience.did()
invokerIsAudience(inv, decryptDelegation) == inv.issuer = decryptDelegation.audience

\* The module's constant Authority: a fixed key with the DID did:web:web3.storage
Authority == DidWeb("web3.storage")

\* No access() call so far
NoAuthority == << >>

\* validateDecryption gets as far as its access() call: the checks before
\* it pass
reachesAccess(inv, spaceDID, t) ==
  /\ \E i \in 1..Len(inv.capabilities) :
       /\ inv.capabilities[i].can = EncryptionKeyDecryptCan
       /\ \A j \in 1..(i - 1) : inv.capabilities[j].can # EncryptionKeyDecryptCan
       /\ inv.capabilities[i].with = spaceDID
  /\ Len(contentDecryptProofs(inv, spaceDID, t)) > 0
  /\ invokerIsAudience(inv, blocks[contentDecryptProofs(inv, spaceDID, t)[1]])

\* validateDecryption; `authorization` is how access() of @ucanto/validator
\* ended for the chosen delegation: "ok", "error" or "throw".
validateDecryption(inv, spaceDID, t, authorization) ==
  LET i == FindFirst(inv.capabilities,
                     LAMBDA cap : cap.can = EncryptionKeyDecryptCan, 1)
      found == contentDecryptProofs(inv, spaceDID, t)
  IN IF i = 0
       THEN Failure("Invocation does not contain space/encryption/key/decrypt capability!")
     ELSE IF inv.capabilities[i].with # spaceDID
       THEN Failure("Invalid with in the invocation")
     ELSE IF Len(found) = 0
       THEN Failure("No valid ContentDecrypt delegation found in proofs!")
     ELSE IF ~invokerIsAudience(inv, blocks[found[1]])
       THEN [Failure("The invoker must be equal to the delegated audience!")
               EXCEPT !.chosen = found[1]]
     ELSE IF authorization = "error"
       THEN [Failure("authorization.error") EXCEPT !.chosen = found[1]]
     ELSE IF authorization = "throw"
       THEN [Failure("Decryption validation failed") EXCEPT !.chosen = found[1]]
     ELSE [Ok EXCEPT !.chosen = found[1]]

AccessOutcomes == {"ok", "error", "throw"}

----------------------------------------------------------------------------
(* RevocationStatusClientImpl: verifyDelegationChain *)

Concurrency == 5

\* Fault: the filter without the comparison of `with` and the space
decryptDelegations_anySpace(proofs, spaceDID) ==
  Filter(proofs, LAMBDA cid :
    /\ isDelegation(blocks[cid])
    /\ Some(blocks[cid].capabilities, LAMBDA cap : cap.can = ContentDecryptCan))

\* The proofs that are delegations granting space/content/decrypt on the space
decryptDelegations(proofs, spaceDID) ==
  Filter(proofs, LAMBDA cid :
    /\ isDelegation(blocks[cid])
    /\ Some(blocks[cid].capabilities,
            LAMBDA cap : cap.can = ContentDecryptCan /\ cap.with = spaceDID))

\* A capability on a did:key resource counts only when the resource is the
\* space; any other resource counts as relevant.
isRelevantToSpace(current, spaceDID) ==
  Some(current.capabilities,
       LAMBDA cap : IF Len(cap.with) > 0 /\ startsWithDidKey(cap.with)
                      THEN cap.with = spaceDID
                      ELSE TRUE)

\* Fault: a traversal that does not enqueue the proofs of a delegation
RECURSIVE collectChain_startOnly(_, _, _, _)
collectChain_startOnly(queue, visited, chain, spaceDID) ==
  IF queue = << >> THEN chain
  ELSE LET cidStr == Head(queue)
           current == blocks[cidStr]
       IN IF cidStr \in visited
            THEN collectChain_startOnly(Tail(queue), visited, chain, spaceDID)
            ELSE collectChain_startOnly(
                   Tail(queue),
                   visited \cup {cidStr},
                   IF isRelevantToSpace(current, spaceDID)
                     THEN Append(chain, cidStr) ELSE chain,
                   spaceDID)

\* Fault: a delegation met again is pushed to the chain again
RECURSIVE collectChain_pushesRevisited(_, _, _, _)
collectChain_pushesRevisited(queue, visited, chain, spaceDID) ==
  IF queue = << >> THEN chain
  ELSE LET cidStr == Head(queue)
           current == blocks[cidStr]
           pushed == IF isRelevantToSpace(current, spaceDID)
                       THEN Append(chain, cidStr) ELSE chain
       IN IF cidStr \in visited
            THEN collectChain_pushesRevisited(Tail(queue), visited, pushed, spaceDID)
            ELSE collectChain_pushesRevisited(
                   Tail(queue) \o Filter(current.proofs,
                                         LAMBDA c : isDelegation(blocks[c])),
                   visited \cup {cidStr},
                   pushed,
                   spaceDID)

\* First pass: the while loop over `queue`, with the `visited` set
RECURSIVE collectChain(_, _, _, _)
collectChain(queue, visited, chain, spaceDID) ==
  IF queue = << >> THEN chain
  ELSE LET cidStr == Head(queue)
           current == blocks[cidStr]
       IN IF cidStr \in visited
            THEN collectChain(Tail(queue), visited, chain, spaceDID)
            ELSE collectChain(
                   Tail(queue) \o Filter(current.proofs,
                                         LAMBDA c : isDelegation(blocks[c])),
                   visited \cup {cidStr},
                   IF isRelevantToSpace(current, spaceDID)
                     THEN Append(chain, cidStr) ELSE chain,
                   spaceDID)

\* How a fetch ends: a response with a status, or a thrown error
Response(status) == [kind |-> "response", status |-> status, name |-> ""]
Thrown(name) == [kind |-> "error", status |-> 0, name |-> name]
NotAsked == [kind |-> "none", status |-> 0, name |-> ""]

FetchOutcomes ==
  {Response(200), Response(404), Response(500),
   Thrown("TypeError"), Thrown("AbortError")}

Null == [isValid |-> TRUE, revokedDelegation |-> "none", reason |-> "null"]
Pending == [isValid |-> FALSE, revokedDelegation |-> "none", reason |-> "pending"]
Valid == [isValid |-> TRUE, revokedDelegation |-> "none", reason |-> ""]
Revoked(cid) ==
  [isValid |-> FALSE, revokedDelegation |-> cid,
   reason |-> "Delegation explicitly revoked"]
Invalid(reason) ==
  [isValid |-> FALSE, revokedDelegation |-> "none", reason |-> reason]

\* Fault: checkCID that takes a 200 response for no answer
checkCID_ignores200(cid, outcome) == Null

\* checkCID: what it returns for the way its fetch ended (Null is `null`)
checkCID(cid, outcome) ==
  IF outcome.kind = "response" /\ outcome.status = 200 THEN Revoked(cid)
  ELSE Null

\* Fault: checkCID that never aborts the other requests
checkCIDAborts_never(outcome) == FALSE

\* checkCID calls abortController.abort() on a 200 response
checkCIDAborts(outcome) == outcome.kind = "response" /\ outcome.status = 200

\* checkStatus: the Result it makes of verifyDelegationChain's return value
checkStatus(result) ==
  IF result.isValid THEN Ok
  ELSE Failure(IF result.reason # "" THEN result.reason
               ELSE "Unable to check revocation status")

Take(s, n) == SubSeq(s, 1, IF Len(s) < n THEN Len(s) ELSE n)
Drop(s, n) == SubSeq(s, n + 1, Len(s))
Range(s) == {s[i] : i \in 1..Len(s)}

\* Fault: verifyDelegationChain without the early return for a missing
\* UPLOAD_SERVICE_URL
BeginVerify_noUrlCheck(proofs, spaceDID, uploadServiceUrl) ==
  LET start == decryptDelegations(proofs, spaceDID)
      chain == collectChain(start, {}, << >>, spaceDID)
  IN IF Len(start) = 0 THEN
       /\ rpc' = "returned"
       /\ decryptStart' = start
       /\ revocationResult' = checkStatus(Invalid("No valid delegations found for space"))
       /\ UNCHANGED <<chainDelegations, revocationQueue, pending, issued,
                      responses, completed, aborted, raceResult>>
     ELSE
       /\ rpc' = "racing"
       /\ decryptStart' = start
       /\ chainDelegations' = chain
       /\ pending' = Range(Take(chain, Concurrency))
       /\ issued' = Range(Take(chain, Concurrency))
       /\ revocationQueue' = Drop(chain, Concurrency)
       /\ UNCHANGED <<responses, completed, aborted, raceResult, revocationResult>>

\* verifyDelegationChain up to its `await racePromise`: the two early
\* returns, the traversal, and the forEach that adds one task per delegation
\* to the PQueue, which starts the first `Concurrency` of them at once.
BeginVerify(proofs, spaceDID, uploadServiceUrl) ==
  LET start == decryptDelegations(proofs, spaceDID)
      chain == collectChain(start, {}, << >>, spaceDID)
  IN IF Len(start) = 0 THEN
       /\ rpc' = "returned"
       /\ decryptStart' = start
       /\ revocationResult' = checkStatus(Invalid("No valid delegations found for space"))
       /\ UNCHANGED <<chainDelegations, revocationQueue, pending, issued,
                      responses, completed, aborted, raceResult>>
     ELSE IF ~uploadServiceUrl THEN
       /\ rpc' = "returned"
       /\ decryptStart' = start
       /\ revocationResult' = checkStatus(Invalid(
            "No revocation service URL configured - cannot validate delegation status"))
       /\ UNCHANGED <<chainDelegations, revocationQueue, pending, issued,
                      responses, completed, aborted, raceResult>>
     ELSE
       /\ rpc' = "racing"
       /\ decryptStart' = start
       /\ chainDelegations' = chain
       /\ pending' = Range(Take(chain, Concurrency))
       /\ issued' = Range(Take(chain, Concurrency))
       /\ revocationQueue' = Drop(chain, Concurrency)
       /\ UNCHANGED <<responses, completed, aborted, raceResult, revocationResult>>

\* Fault: a task whose fetch threw does not count itself as completed
TaskSettles_skipsErrors(cid, outcome) ==
  /\ UNCHANGED <<kmsVars, serverVars, traversalVars, codecVars>>
  /\ UNCHANGED <<raceVars, accessVars>>
  /\ rpc \in {"racing", "returned"}
  /\ cid \in pending
  /\ outcome = Thrown("AbortError") => aborted
  /\ cid \notin issued => outcome = Thrown("AbortError")
  /\ LET result == checkCID(cid, outcome)
         total == Len(chainDelegations)
     IN /\ pending' = pending \ {cid}
        /\ responses' = [responses EXCEPT ![cid] = outcome]
        /\ aborted' = (aborted \/ checkCIDAborts(outcome))
        /\ IF result # Null /\ ~result.isValid
             THEN /\ raceResult' = IF raceResult = Pending THEN result ELSE raceResult
                  /\ UNCHANGED completed
             ELSE IF outcome.kind = "error"
             THEN UNCHANGED <<completed, raceResult>>
             ELSE /\ completed' = completed + 1
                  /\ raceResult' = IF completed + 1 = total /\ raceResult = Pending
                                     THEN Valid ELSE raceResult
  /\ UNCHANGED <<rpc, decryptStart, chainDelegations, revocationQueue, issued,
                 revocationResult>>
  /\ UNCHANGED <<inputVars, handlerVars>>

\* A task of the queue settles: its fetch ended with `outcome`, checkCID
\* returned, and the task resolves the race promise or counts itself.
\* A fetch started on an aborted signal rejects with AbortError and sends
\* nothing; a fetch rejects with AbortError only when the signal is aborted.
TaskSettles(cid, outcome) ==
  /\ UNCHANGED <<kmsVars, serverVars, traversalVars, codecVars>>
  /\ UNCHANGED <<raceVars, accessVars>>
  /\ rpc \in {"racing", "returned"}
  /\ cid \in pending
  /\ outcome = Thrown("AbortError") => aborted
  /\ cid \notin issued => outcome = Thrown("AbortError")
  /\ LET result == checkCID(cid, outcome)
         total == Len(chainDelegations)
     IN /\ pending' = pending \ {cid}
        /\ responses' = [responses EXCEPT ![cid] = outcome]
        /\ aborted' = (aborted \/ checkCIDAborts(outcome))
        /\ IF result # Null /\ ~result.isValid
             THEN /\ raceResult' = IF raceResult = Pending THEN result ELSE raceResult
                  /\ UNCHANGED completed
             ELSE /\ completed' = completed + 1
                  /\ raceResult' = IF completed + 1 = total /\ raceResult = Pending
                                     THEN Valid ELSE raceResult
  /\ UNCHANGED <<rpc, decryptStart, chainDelegations, revocationQueue, issued,
                 revocationResult>>
  /\ UNCHANGED <<inputVars, handlerVars>>

TaskSettlesAny == \E cid \in pending : \E outcome \in FetchOutcomes : TaskSettles(cid, outcome)

\* Fault: a task started after the abort still sends its request
StartNext_ignoresAbort ==
  /\ UNCHANGED <<kmsVars, serverVars, traversalVars, codecVars>>
  /\ UNCHANGED <<raceVars, accessVars>>
  /\ rpc = "racing"
  /\ revocationQueue # << >>
  /\ Cardinality(pending) < Concurrency
  /\ pending' = pending \cup {Head(revocationQueue)}
  /\ issued' = issued \cup {Head(revocationQueue)}
  /\ revocationQueue' = Tail(revocationQueue)
  /\ UNCHANGED <<rpc, decryptStart, chainDelegations, responses, completed,
                 aborted, raceResult, revocationResult>>
  /\ UNCHANGED <<inputVars, handlerVars>>

\* Fault: a queue that starts every task it is given
StartNext_unbounded ==
  /\ UNCHANGED <<kmsVars, serverVars, traversalVars, codecVars>>
  /\ UNCHANGED <<raceVars, accessVars>>
  /\ rpc = "racing"
  /\ revocationQueue # << >>
  /\ pending' = pending \cup {Head(revocationQueue)}
  /\ issued' = IF aborted THEN issued ELSE issued \cup {Head(revocationQueue)}
  /\ revocationQueue' = Tail(revocationQueue)
  /\ UNCHANGED <<rpc, decryptStart, chainDelegations, responses, completed,
                 aborted, raceResult, revocationResult>>
  /\ UNCHANGED <<inputVars, handlerVars>>

\* PQueue starts the next queued task when fewer than `Concurrency` run
StartNext ==
  /\ UNCHANGED <<kmsVars, serverVars, traversalVars, codecVars>>
  /\ UNCHANGED <<raceVars, accessVars>>
  /\ rpc = "racing"
  /\ revocationQueue # << >>
  /\ Cardinality(pending) < Concurrency
  /\ pending' = pending \cup {Head(revocationQueue)}
  /\ issued' = IF aborted THEN issued ELSE issued \cup {Head(revocationQueue)}
  /\ revocationQueue' = Tail(revocationQueue)
  /\ UNCHANGED <<rpc, decryptStart, chainDelegations, responses, completed,
                 aborted, raceResult, revocationResult>>
  /\ UNCHANGED <<inputVars, handlerVars>>

\* Fault: no revocationQueue.clear() in the finally block
VerifyReturns_keepsQueue ==
  /\ UNCHANGED <<kmsVars, serverVars, traversalVars, codecVars>>
  /\ UNCHANGED <<raceVars, accessVars>>
  /\ rpc = "racing"
  /\ raceResult # Pending
  /\ rpc' = "returned"
  /\ revocationResult' = checkStatus(raceResult)
  /\ UNCHANGED <<decryptStart, chainDelegations, revocationQueue, pending, issued,
                 responses, completed, aborted, raceResult>>
  /\ UNCHANGED <<inputVars, handlerVars>>

\* `return await racePromise`, the finally block, and checkStatus's return
VerifyReturns ==
  /\ UNCHANGED <<kmsVars, serverVars, traversalVars, codecVars>>
  /\ UNCHANGED <<raceVars, accessVars>>
  /\ rpc = "racing"
  /\ raceResult # Pending
  /\ rpc' = "returned"
  /\ revocationQueue' = << >>
  /\ revocationResult' = checkStatus(raceResult)
  /\ UNCHANGED <<decryptStart, chainDelegations, pending, issued, responses,
                 completed, aborted, raceResult>>
  /\ UNCHANGED <<inputVars, handlerVars>>

----------------------------------------------------------------------------
(* Collaborators behind an interface: how a call to them can end *)

\* PlanSubscriptionServiceImpl.isProvisioned: no proofs is a failure of its
\* own; otherwise the plan/get invocation against the upload service decides.
isProvisionedOutcomes(proofs) ==
  IF Len(proofs) = 0 THEN {"error"} ELSE {"ok", "error", "throw"}

isProvisionedMessage(proofs) ==
  IF Len(proofs) = 0 THEN "No Plan/Get Delegation proofs provided"
  ELSE "Subscription validation failed"

DecryptOutcomes == {"ok", "error", "throw"}
SetupOutcomes == {"ok", "incomplete", "error", "throw"}

NoResponse == [ok |-> FALSE, message |-> "no response yet", chosen |-> "none"]
Success == [ok |-> TRUE, message |-> "", chosen |-> "none"]

\* The return of a handler
Respond(result) ==
  /\ response' = [ok |-> result.ok, message |-> result.message, chosen |-> "none"]
  /\ pc' = "done"

\* auditLog.logInvocation(space, can, success, error, invocationCid, duration):
\* one invocation event goes to the audit sink
logInvocation(success) == auditLog' = Append(auditLog, [success |-> success])

\* Fault: a handler exit that returns without logging the invocation
Return_unlogged(result) == Respond(result) /\ UNCHANGED auditLog

\* Every exit of the two handlers: logInvocation, then return
Return(result) == logInvocation(result.ok) /\ Respond(result)

----------------------------------------------------------------------------
(* handleKeyDecryption *)

\* From the entry to the first await: the two guards and validateDecryption
DecryptValidate ==
  /\ UNCHANGED <<kmsVars, serverVars, traversalVars, codecVars>>
  /\ UNCHANGED <<raceVars, ucanKmsIdentity>>
  /\ accessAuthority' =
       IF /\ ctx.ucanKmsIdentity
          /\ request.encryptedSymmetricKey
          /\ ctx.ucanPrivacyValidationService
          /\ reachesAccess(invocation, request.space, now)
         THEN Authority ELSE accessAuthority
  /\ entry = "handleKeyDecryption"
  /\ pc = "start"
  /\ IF ~ctx.ucanKmsIdentity THEN
       /\ Return(Failure("Encryption not available - ucanKms identity not configured"))
       /\ UNCHANGED <<calls, validationResult, planResult>>
     ELSE IF ~request.encryptedSymmetricKey THEN
       /\ Return(Failure("Missing encryptedSymmetricKey in invocation"))
       /\ UNCHANGED <<calls, validationResult, planResult>>
     ELSE IF ~ctx.ucanPrivacyValidationService THEN
       /\ pc' = "entitlement"
       /\ UNCHANGED <<calls, validationResult, planResult, response, auditLog>>
     ELSE \E authorization \in AccessOutcomes :
       LET result == validateDecryption(invocation, request.space, now, authorization)
       IN /\ calls' = Append(calls, "validateDecryption")
          /\ validationResult' = result
          /\ IF result.ok THEN pc' = "entitlement" /\ UNCHANGED <<response, auditLog>>
             ELSE Return(result)
          /\ UNCHANGED planResult
  /\ UNCHANGED <<inputVars, revocationVars>>

\* ctx.subscriptionStatusService.isProvisioned(request.space, proofs, ctx),
\* in both handlers
Entitlement ==
  /\ UNCHANGED <<kmsVars, serverVars, traversalVars, codecVars>>
  /\ UNCHANGED <<raceVars, accessVars>>
  /\ pc = "entitlement"
  /\ \E outcome \in isProvisionedOutcomes(invocation.proofs) :
       /\ calls' = Append(calls, "isProvisioned")
       /\ planResult' = outcome
       /\ CASE outcome = "ok" ->
                 /\ pc' = IF entry = "handleKeyDecryption" THEN "revocation" ELSE "kms"
                 /\ UNCHANGED <<response, auditLog>>
            [] outcome = "error" ->
                 Return(Failure(isProvisionedMessage(invocation.proofs)))
            [] outcome = "throw" ->
                 Return(Failure(IF entry = "handleKeyDecryption"
                                   THEN "err.message"
                                   ELSE "Encryption setup failed"))
  /\ UNCHANGED <<inputVars, validationResult, revocationVars>>

\* ctx.revocationStatusClient.checkStatus(proofs, request.space, env)
DecryptCheckStatus ==
  /\ UNCHANGED <<kmsVars, serverVars, traversalVars, codecVars>>
  /\ UNCHANGED <<raceVars, accessVars>>
  /\ pc = "revocation"
  /\ calls' = Append(calls, "checkStatus")
  /\ BeginVerify(invocation.proofs, request.space, env.UPLOAD_SERVICE_URL)
  /\ pc' = "awaitRevocation"
  /\ UNCHANGED <<inputVars, response, validationResult, planResult, auditLog>>

\* Fault: a handler that goes on to the KMS whatever checkStatus returned
DecryptRevocationChecked_ignoresError ==
  /\ UNCHANGED <<kmsVars, serverVars, traversalVars, codecVars>>
  /\ UNCHANGED <<raceVars, accessVars>>
  /\ pc = "awaitRevocation"
  /\ rpc = "returned"
  /\ pc' = "kms"
  /\ UNCHANGED <<inputVars, calls, response, validationResult, planResult,
                 auditLog, revocationVars>>

\* checkStatus has returned
DecryptRevocationChecked ==
  /\ UNCHANGED <<kmsVars, serverVars, traversalVars, codecVars>>
  /\ UNCHANGED <<raceVars, accessVars>>
  /\ pc = "awaitRevocation"
  /\ rpc = "returned"
  /\ IF revocationResult.ok THEN pc' = "kms" /\ UNCHANGED <<response, auditLog>>
     ELSE Return(revocationResult)
  /\ UNCHANGED <<inputVars, calls, validationResult, planResult, revocationVars>>

\* ctx.kms.decryptSymmetricKey(request, env)
DecryptKms ==
  /\ UNCHANGED <<kmsVars, serverVars, traversalVars, codecVars>>
  /\ UNCHANGED <<raceVars, accessVars>>
  /\ entry = "handleKeyDecryption"
  /\ pc = "kms"
  /\ calls' = Append(calls, "decryptSymmetricKey")
  /\ \E outcome \in DecryptOutcomes :
       CASE outcome = "ok" -> Return(Success)
         [] outcome = "error" -> Return(Failure("kmsResult.error"))
         [] outcome = "throw" -> Return(Failure("err.message"))
  /\ UNCHANGED <<inputVars, validationResult, planResult, revocationVars>>

----------------------------------------------------------------------------
(* handleEncryptionSetup *)

\* Fault: a handler that goes on to the plan check whatever validateEncryption
\* returned
SetupValidate_ignoresError ==
  /\ UNCHANGED <<kmsVars, serverVars, traversalVars, codecVars>>
  /\ UNCHANGED <<raceVars, accessVars>>
  /\ entry = "handleEncryptionSetup"
  /\ pc = "start"
  /\ calls' = Append(calls, "validateEncryption")
  /\ validationResult' = validateEncryption(invocation, request.space)
  /\ pc' = "entitlement"
  /\ UNCHANGED <<inputVars, response, planResult, auditLog, revocationVars>>

\* From the entry to the first await: the guard and validateEncryption
SetupValidate ==
  /\ UNCHANGED <<kmsVars, serverVars, traversalVars, codecVars>>
  /\ UNCHANGED <<raceVars, accessVars>>
  /\ entry = "handleEncryptionSetup"
  /\ pc = "start"
  /\ IF ~ctx.ucanKmsIdentity THEN
       /\ Return(Failure("Encryption setup not available - ucanKms identity not configured"))
       /\ UNCHANGED <<calls, validationResult, planResult>>
     ELSE IF ~ctx.ucanPrivacyValidationService THEN
       /\ pc' = "entitlement"
       /\ UNCHANGED <<calls, validationResult, planResult, response, auditLog>>
     ELSE
       LET result == validateEncryption(invocation, request.space)
       IN /\ calls' = Append(calls, "validateEncryption")
          /\ validationResult' = result
          /\ IF result.ok THEN pc' = "entitlement" /\ UNCHANGED <<response, auditLog>>
             ELSE Return(result)
          /\ UNCHANGED planResult
  /\ UNCHANGED <<inputVars, revocationVars>>

\* Steps 3 to 5: ctx.kms.setupKeyForSpace(request, env) and its result
SetupKms ==
  /\ UNCHANGED <<kmsVars, serverVars, traversalVars, codecVars>>
  /\ UNCHANGED <<raceVars, accessVars>>
  /\ entry = "handleEncryptionSetup"
  /\ pc = "kms"
  /\ IF ~ctx.kms THEN
       /\ Return(Failure("KMS service not available"))
       /\ UNCHANGED calls
     ELSE
       /\ calls' = Append(calls, "setupKeyForSpace")
       /\ \E outcome \in SetupOutcomes :
            CASE outcome = "ok" -> Return(Success)
              [] outcome = "incomplete" ->
                   Return(Failure("Missing public key, algorithm, or provider in encryption setup"))
              [] outcome = "error" -> Return(Failure("kmsResult.error"))
              [] outcome = "throw" -> Return(Failure("Encryption setup failed"))
  /\ UNCHANGED <<inputVars, validationResult, planResult, revocationVars>>

----------------------------------------------------------------------------
(* Direct calls of the service methods *)

CallValidateEncryption ==
  /\ UNCHANGED <<kmsVars, serverVars, traversalVars, codecVars, auditLog>>
  /\ UNCHANGED <<raceVars, accessVars>>
  /\ entry = "validateEncryption"
  /\ pc = "start"
  /\ LET result == validateEncryption(invocation, request.space)
     IN /\ validationResult' = result
        /\ Respond(result)
  /\ calls' = Append(calls, "validateEncryption")
  /\ UNCHANGED <<inputVars, planResult, revocationVars>>

CallValidateDecryption ==
  /\ UNCHANGED <<kmsVars, serverVars, traversalVars, codecVars, auditLog>>
  /\ UNCHANGED <<raceVars, ucanKmsIdentity>>
  /\ accessAuthority' = IF reachesAccess(invocation, request.space, now)
                          THEN Authority ELSE accessAuthority
  /\ entry = "validateDecryption"
  /\ pc = "start"
  /\ \E authorization \in AccessOutcomes :
       LET result == validateDecryption(invocation, request.space, now, authorization)
       IN /\ validationResult' = result
          /\ Respond(result)
  /\ calls' = Append(calls, "validateDecryption")
  /\ UNCHANGED <<inputVars, planResult, revocationVars>>

CallCheckStatus ==
  /\ UNCHANGED <<kmsVars, serverVars, traversalVars, codecVars, auditLog>>
  /\ UNCHANGED <<raceVars, accessVars>>
  /\ entry = "checkStatus"
  /\ pc = "start"
  /\ calls' = Append(calls, "checkStatus")
  /\ BeginVerify(invocation.proofs, request.space, env.UPLOAD_SERVICE_URL)
  /\ pc' = "awaitRevocation"
  /\ UNCHANGED <<inputVars, response, validationResult, planResult>>

CheckStatusReturned ==
  /\ UNCHANGED <<kmsVars, serverVars, traversalVars, codecVars, auditLog>>
  /\ UNCHANGED <<raceVars, accessVars>>
  /\ entry = "checkStatus"
  /\ pc = "awaitRevocation"
  /\ rpc = "returned"
  /\ Respond(revocationResult)
  /\ UNCHANGED <<inputVars, calls, validationResult, planResult, revocationVars>>

----------------------------------------------------------------------------
(* GoogleKMSService *)

\* The options of pRetry and the overall timeout of
\* _fetchAndValidatePublicKey, in seconds
Retries == 5
Factor == 2
MinTimeout == 1
MaxTimeout == 10
OverallTimeout == 30

\* A fetch that rejected has no status; NoStatus: no fetch so far
Rejected == 0
NoStatus == -1

RECURSIVE Pow(_, _)
Pow(b, e) == IF e = 0 THEN 1 ELSE b * Pow(b, e - 1)

Min(a, b) == IF a < b THEN a ELSE b

\* The wait p-retry inserts after failed attempt number n
Backoff(n) == Min(MinTimeout * Pow(Factor, n - 1), MaxTimeout)

\* Response.ok
\* Fault: only 200 counts as an ok response
isOk_only200(status) == status = 200

isOk(status) == status >= 200 /\ status <= 299

\* _setupAuthentication: GOOGLE_KMS_TOKEN first, the service account JSON
\* otherwise; keyOk tells whether its private_key is base64 between the
\* PKCS#8 markers, so that atob() in _createJWT accepts it.
AccessToken == [type |-> "access_token", keyOk |-> TRUE]
ServiceAccount(keyOk) == [type |-> "service_account", keyOk |-> keyOk]

\* The SecureString the constructor wraps the private key in
constructed(auth) == IF auth.type = "service_account" THEN {"private_key"} ELSE {}

\* _getAuthHeaders: with a service account it signs a JWT and exchanges it
\* for an access token, and throws when either step fails.
AuthOutcomes(auth) ==
  IF auth.type = "access_token" THEN {"ok"}
  ELSE IF ~auth.keyOk THEN {"throw"}
  ELSE {"ok", "throw"}

\* _createJWT disposes pemContents after atob() returned; when atob() throws
\* the SecureString stays as it is.
createJWTLeaves(auth) ==
  IF auth.type = "service_account" /\ ~auth.keyOk THEN {"pemContents"} ELSE {}

KmsOk(publicKey) == [ok |-> TRUE, message |-> "", publicKey |-> publicKey]
KmsFailure(message) == [ok |-> FALSE, message |-> message, publicKey |-> "none"]

KmsReturn(result) ==
  /\ kmsResults' = Append(kmsResults, result)
  /\ kpc' = "done"

\* What Google KMS answers to GET .../cryptoKeys/{id}: the truth about the
\* key, or an error status; the fetch can also reject.
LookupStatuses ==
  (IF backend = "none" THEN {404} ELSE {200, 204}) \cup {401, 500, Rejected}

\* What it answers to POST .../cryptoKeys?cryptoKeyId={id}
CreateStatuses ==
  (IF backend = "none" THEN {200} ELSE {409}) \cup {401, 500, Rejected}

\* The length of a space's key id
KeyIdLength == 48

\* The characters of the model that /^[a-zA-Z0-9]+$/ accepts; "-", "_" and
\* ":" are the others
Alphanumeric == {"a", "z", "A", "Z", "0", "9"}

\* A DID's segments back in one string of characters
RECURSIVE Join(_)
Join(segments) ==
  IF Len(segments) = 0 THEN << >>
  ELSE IF Len(segments) = 1 THEN segments[1]
  ELSE segments[1] \o <<":">> \o Join(Tail(segments))

Sanitized(keyId) == [ok |-> TRUE, keyId |-> keyId]
InvalidSpaceDID == [ok |-> FALSE, keyId |-> << >>]

\* Fault: an identifier made to fit the backend's rules
sanitizeSpaceDIDForKMSKeyId_truncates(spaceDID) ==
  LET keyId == SelectSeq(Join(SubSeq(spaceDID, 3, Len(spaceDID))),
                         LAMBDA c : c \in Alphanumeric)
  IN IF Len(keyId) < KeyIdLength THEN InvalidSpaceDID
     ELSE Sanitized(SubSeq(keyId, 1, KeyIdLength))

\* utils.js: the space DIDs of the model all start with did:key:, which
\* spaceDID.replace(/^did:key:/, '') removes
sanitizeSpaceDIDForKMSKeyId(spaceDID) ==
  LET keyId == Join(SubSeq(spaceDID, 3, Len(spaceDID)))
  IN IF Len(keyId) # KeyIdLength THEN InvalidSpaceDID
     ELSE IF \E i \in 1..Len(keyId) : keyId[i] \notin Alphanumeric THEN InvalidSpaceDID
     ELSE Sanitized(keyId)

\* Fault: the key is created whatever the existence check answers
KmsSetupLookup_alwaysCreates ==
  /\ entry = "setupKeyForSpace"
  /\ kpc = "start"
  /\ \E status \in LookupStatuses :
       /\ lookupStatus' = status
       /\ secure' = secure \cup constructed(authConfig)
       /\ kpc' = "create"
       /\ UNCHANGED <<keyPath, kmsResults>>
  /\ UNCHANGED <<authConfig, backend, script, kcall, createStatus, createRequests, attempts,
                 lastFetch, notFound, kclock>>
  /\ UNCHANGED <<versionVars, integrity>>
  /\ UNCHANGED <<inputVars, handlerVars, revocationVars, serverVars, traversalVars, codecVars>>
  /\ UNCHANGED <<raceVars, accessVars>>

\* setupKeyForSpace up to the answer of the existence check, for a service
\* the worker has just constructed
KmsSetupLookup ==
  /\ entry = "setupKeyForSpace"
  /\ kpc = "start"
  /\ keyName' = sanitizeSpaceDIDForKMSKeyId(request.space).keyId
  /\ \E auth \in AuthOutcomes(authConfig) :
       IF ~sanitizeSpaceDIDForKMSKeyId(request.space).ok THEN
         /\ KmsReturn(KmsFailure("Encryption setup failed"))
         /\ secure' = secure \cup constructed(authConfig)
         /\ UNCHANGED <<lookupStatus, keyPath>>
       ELSE IF auth = "throw" THEN
         /\ KmsReturn(KmsFailure("Encryption setup failed"))
         /\ secure' = secure \cup constructed(authConfig) \cup createJWTLeaves(authConfig)
         /\ UNCHANGED <<lookupStatus, keyPath>>
       ELSE \E status \in LookupStatuses :
         /\ lookupStatus' = status
         /\ secure' = secure \cup constructed(authConfig)
         /\ IF isOk(status) THEN
              /\ kpc' = "keyVersion"
              /\ keyPath' = "existing"
              /\ UNCHANGED kmsResults
            ELSE IF status = 404 THEN
              /\ kpc' = "create"
              /\ UNCHANGED <<keyPath, kmsResults>>
            ELSE IF status = 401 THEN
              /\ KmsReturn(KmsFailure("KMS authentication failed"))
              /\ UNCHANGED keyPath
            ELSE
              /\ KmsReturn(KmsFailure("Encryption setup failed"))
              /\ UNCHANGED keyPath
  /\ UNCHANGED <<authConfig, backend, script, kcall, createStatus, createRequests, attempts,
                 lastFetch, notFound, kclock>>
  /\ UNCHANGED <<keyData, versionsData, version, decryptRequests, integrity>>
  /\ UNCHANGED <<inputVars, handlerVars, revocationVars, serverVars, traversalVars, codecVars>>
  /\ UNCHANGED <<raceVars, accessVars>>

\* _retrieveExistingPublicKey: _getPrimaryKeyVersion, and for a key without
\* primary version _getActiveKeyVersion; they throw on a response that is
\* not ok and when no version is ENABLED.
KmsKeyVersion ==
  /\ entry = "setupKeyForSpace"
  /\ kpc = "keyVersion"
  /\ \E auth \in AuthOutcomes(authConfig), found \in BOOLEAN :
       IF auth = "ok" /\ found
         THEN kpc' = "pubkey" /\ UNCHANGED kmsResults
         ELSE KmsReturn(KmsFailure("Encryption setup failed"))
  /\ UNCHANGED <<authConfig, backend, script, kcall, lookupStatus, createStatus, keyPath,
                 createRequests,
                 attempts, lastFetch, notFound, kclock, secure>>
  /\ UNCHANGED <<versionVars, integrity>>
  /\ UNCHANGED <<inputVars, handlerVars, revocationVars, serverVars, traversalVars, codecVars>>
  /\ UNCHANGED <<raceVars, accessVars>>

\* _createNewKey up to the answer to the create request
KmsCreate ==
  /\ entry = "setupKeyForSpace"
  /\ kpc = "create"
  /\ \E auth \in AuthOutcomes(authConfig) :
       IF auth = "throw" THEN
         /\ KmsReturn(KmsFailure("Encryption setup failed"))
         /\ UNCHANGED <<backend, keyPath, createRequests, createStatus>>
       ELSE \E status \in CreateStatuses :
         /\ createRequests' = createRequests + 1
         /\ createStatus' = status
         /\ IF isOk(status) THEN
              /\ backend' = "pem1"
              /\ keyPath' = "created"
              /\ kpc' = "pubkey"
              /\ UNCHANGED kmsResults
            ELSE
              /\ KmsReturn(KmsFailure("Encryption setup failed"))
              /\ UNCHANGED <<backend, keyPath>>
  /\ UNCHANGED <<authConfig, script, kcall, lookupStatus, attempts, lastFetch,
                 notFound, kclock, secure>>
  /\ UNCHANGED <<versionVars, integrity>>
  /\ UNCHANGED <<inputVars, handlerVars, revocationVars, serverVars, traversalVars, codecVars>>
  /\ UNCHANGED <<raceVars, accessVars>>

\* What the publicKey endpoint can answer: 200 with a PEM public key, 200
\* with material that is no PEM public key, or an error status ("400pending"
\* is a 400 whose text has PENDING_GENERATION or `is not enabled`)
PublicKeyAnswers ==
  {"200", "malformed", "404", "403", "400pending", "400", "401", "500"}

\* How long an answer can take, in seconds
Durations == {0, 20, 30}

\* The failures of an attempt that make pRetry try again: the plain Errors
\* thrown for 404, 403, 400 PENDING_GENERATION and 5xx, the error of
\* _getAuthHeaders, and the AbortError with which fetch rejects once the
\* overall timeout has aborted its signal.  The rest is thrown as p-retry's
\* AbortError, which ends the retries.
\* Fault: a 403 ends the retries
Retryable_no403 == {"404", "400pending", "500", "abort", "authError"}

\* Fault: every failed attempt is retried
Retryable_everything ==
  {"404", "403", "400pending", "500", "abort", "authError",
   "400", "401", "malformed"}

Retryable == {"404", "403", "400pending", "500", "abort", "authError"}

\* pRetry calls its input for a first or a further attempt
KmsFetchAttempt ==
  /\ entry = "setupKeyForSpace"
  /\ kpc = "pubkey"
  /\ attempts' = attempts + 1
  /\ kpc' = "fetching"
  /\ UNCHANGED <<authConfig, backend, script, kcall, lookupStatus, createStatus, keyPath,
                 createRequests,
                 lastFetch, notFound, kclock, secure, kmsResults>>
  /\ UNCHANGED <<versionVars, integrity>>
  /\ UNCHANGED <<inputVars, handlerVars, revocationVars, serverVars, traversalVars, codecVars>>
  /\ UNCHANGED <<raceVars, accessVars>>

\* What can become of the fetch of the attempt in flight
FetchPlans ==
  IF kclock >= OverallTimeout THEN {[answer |-> "abort", took |-> 0]}
  ELSE IF script.on THEN {script.steps[attempts]}
  ELSE [answer : PublicKeyAnswers, took : Durations]

\* The checksum of a PEM of the model, as CRC32.str(pem) >>> 0 computes it
CRC32str(pem) == IF pem = "pem0" THEN 3 ELSE 5

\* No pemCrc32c and no publicKey.crc32cChecksum in the response
NoChecksum == -1

\* The checksum the endpoint sends along: none, the one the service
\* computes, another one.  A scripted endpoint sends none.
ChecksumAnswers ==
  IF script.on THEN {NoChecksum}
  ELSE {NoChecksum, CRC32str(backend), CRC32str(backend) + 1}

validatePublicKeyIntegrity(pem, expectedCrc32c) == expectedCrc32c = CRC32str(pem)

\* The integrity check of a fetched key: skipped without a checksum; a
\* mismatch is logged as 'integrity_check_bypassed'
integrityCheck(dataForCrc, crcChecksum) ==
  IF crcChecksum = NoChecksum THEN "unchecked"
  ELSE IF validatePublicKeyIntegrity(dataForCrc, crcChecksum) THEN "valid"
  ELSE "bypassed"

\* Fault: a key whose checksum does not match is not returned
KmsFetchSettles_failsOnMismatch ==
  /\ entry = "setupKeyForSpace"
  /\ kpc = "fetching"
  /\ \E auth \in AuthOutcomes(authConfig), plan \in FetchPlans, crcChecksum \in ChecksumAnswers :
       LET late == kclock + plan.took >= OverallTimeout
           outcome == IF auth = "throw" THEN "authError"
                      ELSE IF late THEN "abort" ELSE plan.answer
           at == IF auth = "throw" THEN kclock
                 ELSE IF ~late THEN kclock + plan.took
                 ELSE IF kclock > OverallTimeout THEN kclock ELSE OverallTimeout
       IN /\ lastFetch' = outcome
          /\ notFound' = IF outcome = "404" THEN notFound + 1 ELSE notFound
          /\ kclock' = at
          /\ integrity' = IF outcome = "200" THEN integrityCheck(backend, crcChecksum)
                          ELSE integrity
          /\ IF outcome = "200" /\ integrityCheck(backend, crcChecksum) # "bypassed"
               THEN KmsReturn(KmsOk(backend))
             ELSE IF outcome \in Retryable /\ attempts <= Retries
               THEN kpc' = "backoff" /\ UNCHANGED kmsResults
             ELSE KmsReturn(KmsFailure("Encryption setup failed"))
  /\ UNCHANGED <<authConfig, backend, script, kcall, lookupStatus, createStatus, keyPath,
                 createRequests,
                 attempts, secure>>
  /\ UNCHANGED versionVars
  /\ UNCHANGED <<inputVars, handlerVars, revocationVars, serverVars, traversalVars, codecVars>>
  /\ UNCHANGED <<raceVars, accessVars>>

\* The attempt ends: with the value of the pRetry input, or with an error on
\* which pRetry schedules a retry or gives up.  Every failure of
\* _fetchAndValidatePublicKey reaches the caller of setupKeyForSpace as
\* 'Encryption setup failed'.
KmsFetchSettles ==
  /\ entry = "setupKeyForSpace"
  /\ kpc = "fetching"
  /\ \E auth \in AuthOutcomes(authConfig), plan \in FetchPlans, crcChecksum \in ChecksumAnswers :
       LET late == kclock + plan.took >= OverallTimeout
           outcome == IF auth = "throw" THEN "authError"
                      ELSE IF late THEN "abort" ELSE plan.answer
           at == IF auth = "throw" THEN kclock
                 ELSE IF ~late THEN kclock + plan.took
                 ELSE IF kclock > OverallTimeout THEN kclock ELSE OverallTimeout
       IN /\ lastFetch' = outcome
          /\ notFound' = IF outcome = "404" THEN notFound + 1 ELSE notFound
          /\ kclock' = at
          /\ integrity' = IF outcome = "200" THEN integrityCheck(backend, crcChecksum)
                          ELSE integrity
          /\ IF outcome = "200" THEN KmsReturn(KmsOk(backend))
             ELSE IF outcome \in Retryable /\ attempts <= Retries
               THEN kpc' = "backoff" /\ UNCHANGED kmsResults
             ELSE KmsReturn(KmsFailure("Encryption setup failed"))
  /\ UNCHANGED <<authConfig, backend, script, kcall, lookupStatus, createStatus, keyPath,
                 createRequests,
                 attempts, secure>>
  /\ UNCHANGED versionVars
  /\ UNCHANGED <<inputVars, handlerVars, revocationVars, serverVars, traversalVars, codecVars>>
  /\ UNCHANGED <<raceVars, accessVars>>

\* The wait before the next attempt is over
KmsBackoffEnds ==
  /\ entry = "setupKeyForSpace"
  /\ kpc = "backoff"
  /\ kclock' = kclock + Backoff(attempts)
  /\ kpc' = "pubkey"
  /\ UNCHANGED <<authConfig, backend, script, kcall, lookupStatus, createStatus, keyPath,
                 createRequests,
                 attempts, lastFetch, notFound, secure, kmsResults>>
  /\ UNCHANGED <<versionVars, integrity>>
  /\ UNCHANGED <<inputVars, handlerVars, revocationVars, serverVars, traversalVars, codecVars>>
  /\ UNCHANGED <<raceVars, accessVars>>

\* What GET .../cryptoKeys/{id} answers to _getPrimaryKeyVersion: a status
\* that is not ok (or a rejected fetch), a key with a primary version, a key
\* without one
KeyDataAnswers ==
  IF backend = "none" THEN {"notOk"} ELSE {"notOk", "primary", "noPrimary"}

\* The greatest number of versions of a key
MaxVersions == 2

VersionStates == {"ENABLED", "DISABLED", "DESTROYED"}

\* A version of the key; its name ends with its number
CryptoKeyVersion(number, state) == [name |-> <<"cryptoKeyVersions", number>>, state |-> state]

\* What GET .../cryptoKeyVersions answers: a status that is not ok, or the
\* versions of the key in any states
NotListed == [asked |-> TRUE, ok |-> FALSE, cryptoKeyVersions |-> << >>]
VersionsNotAsked == [asked |-> FALSE, ok |-> FALSE, cryptoKeyVersions |-> << >>]

VersionsAnswers ==
  {NotListed} \cup
  {[asked |-> TRUE, ok |-> TRUE,
    cryptoKeyVersions |-> [i \in 1..n |-> CryptoKeyVersion(i, states[i])]] :
     n \in 0..MaxVersions, states \in [1..MaxVersions -> VersionStates]}

NoVersion == << >>
PrimaryName == <<"primary", "name">>

\* Fault: version 1 is used when no version is ENABLED
activeVersion_fallsBackToFirst(versions) ==
  LET enabledVersions == SelectSeq(versions, LAMBDA v : v.state = "ENABLED")
  IN IF Len(enabledVersions) > 0 THEN enabledVersions[1].name
     ELSE IF Len(versions) > 0 THEN versions[1].name ELSE NoVersion

\* _getActiveKeyVersion: the first version in state ENABLED, NoVersion for
\* the throw of 'No active key version found'
activeVersion(versions) ==
  LET enabledVersions == SelectSeq(versions, LAMBDA v : v.state = "ENABLED")
  IN IF Len(enabledVersions) > 0 THEN enabledVersions[1].name ELSE NoVersion

\* decryptSymmetricKey up to the key data of _getPrimaryKeyVersion, for a
\* service the worker has just constructed
KmsDecryptKeyVersion ==
  /\ entry = "decryptSymmetricKey"
  /\ kpc = "start"
  /\ keyName' = sanitizeSpaceDIDForKMSKeyId(request.space).keyId
  /\ \E auth \in AuthOutcomes(authConfig), answer \in KeyDataAnswers :
       IF ~sanitizeSpaceDIDForKMSKeyId(request.space).ok THEN
         /\ secure' = secure \cup constructed(authConfig)
         /\ KmsReturn(KmsFailure("KMS decryption failed"))
         /\ UNCHANGED <<keyData, version>>
       ELSE IF auth = "throw" THEN
         /\ secure' = secure \cup constructed(authConfig) \cup createJWTLeaves(authConfig)
         /\ KmsReturn(KmsFailure("KMS decryption failed"))
         /\ UNCHANGED <<keyData, version>>
       ELSE
         /\ secure' = secure \cup constructed(authConfig)
         /\ keyData' = answer
         /\ IF answer = "primary" THEN
              /\ version' = PrimaryName
              /\ kpc' = "decrypt"
              /\ UNCHANGED kmsResults
            ELSE IF answer = "noPrimary" THEN
              /\ kpc' = "versions"
              /\ UNCHANGED <<version, kmsResults>>
            ELSE
              /\ KmsReturn(KmsFailure("KMS decryption failed"))
              /\ UNCHANGED version
  /\ UNCHANGED <<authConfig, backend, script, kcall, lookupStatus, createStatus, keyPath,
                 createRequests,
                 attempts, lastFetch, notFound, kclock>>
  /\ UNCHANGED <<versionsData, decryptRequests, integrity>>
  /\ UNCHANGED <<inputVars, handlerVars, revocationVars, serverVars, traversalVars, codecVars>>
  /\ UNCHANGED <<raceVars, accessVars>>

\* _getActiveKeyVersion, for a key without primary version
KmsDecryptActiveVersion ==
  /\ entry = "decryptSymmetricKey"
  /\ kpc = "versions"
  /\ \E auth \in AuthOutcomes(authConfig), answer \in VersionsAnswers :
       IF auth = "throw" THEN
         /\ KmsReturn(KmsFailure("KMS decryption failed"))
         /\ UNCHANGED <<versionsData, version>>
       ELSE
         /\ versionsData' = answer
         /\ version' = activeVersion(answer.cryptoKeyVersions)
         /\ IF answer.ok /\ activeVersion(answer.cryptoKeyVersions) # NoVersion
              THEN kpc' = "decrypt" /\ UNCHANGED kmsResults
              ELSE KmsReturn(KmsFailure("KMS decryption failed"))
  /\ UNCHANGED <<authConfig, backend, script, kcall, lookupStatus, createStatus, keyPath,
                 createRequests,
                 attempts, lastFetch, notFound, kclock, secure>>
  /\ UNCHANGED <<keyName, keyData, decryptRequests, integrity>>
  /\ UNCHANGED <<inputVars, handlerVars, revocationVars, serverVars, traversalVars, codecVars>>
  /\ UNCHANGED <<raceVars, accessVars>>

\* How the asymmetricDecrypt request can end: a base64 plaintext, a
\* plaintext atob() rejects, a body without plaintext, a status that is not
\* ok, a rejected fetch
DecryptAnswers == {"plaintext", "badBase64", "noPlaintext", "notOk", "rejected"}

\* The rest of decryptSymmetricKey: secureDecryptedKey wraps the plaintext
\* and the finally block disposes it
KmsDecryptPost ==
  /\ entry = "decryptSymmetricKey"
  /\ kpc = "decrypt"
  /\ \E auth \in AuthOutcomes(authConfig), answer \in DecryptAnswers :
       LET wrapped == IF auth = "ok" /\ answer \in {"plaintext", "badBase64"}
                        THEN {"secureDecryptedKey"} ELSE {}
       IN /\ secure' = (secure \cup wrapped) \ {"secureDecryptedKey"}
          /\ decryptRequests' = IF auth = "ok" THEN decryptRequests + 1
                                ELSE decryptRequests
          /\ IF auth = "ok" /\ answer = "plaintext"
               THEN KmsReturn(KmsOk("none"))
               ELSE KmsReturn(KmsFailure("KMS decryption failed"))
  /\ UNCHANGED <<authConfig, backend, script, kcall, lookupStatus, createStatus, keyPath,
                 createRequests,
                 attempts, lastFetch, notFound, kclock>>
  /\ UNCHANGED <<keyName, keyData, versionsData, version, integrity>>
  /\ UNCHANGED <<inputVars, handlerVars, revocationVars, serverVars, traversalVars, codecVars>>
  /\ UNCHANGED <<raceVars, accessVars>>

\* The state of a call no code of the service has touched yet
KmsCallStart ==
  /\ kpc = "start"
  /\ lookupStatus = NoStatus
  /\ createStatus = NoStatus
  /\ keyPath = "none"
  /\ createRequests = 0
  /\ attempts = 0
  /\ lastFetch = "none"
  /\ notFound = 0
  /\ kclock = 0
  /\ keyName = << >>
  /\ keyData = "none"
  /\ versionsData = VersionsNotAsked
  /\ version = NoVersion
  /\ decryptRequests = 0
  /\ integrity = "none"

\* A second setup request for the same space arrives after the first
KmsNextCall ==
  /\ entry = "setupKeyForSpace"
  /\ kpc = "done"
  /\ kcall = 1
  /\ kcall' = 2
  /\ kpc' = "start"
  /\ lookupStatus' = NoStatus
  /\ createStatus' = NoStatus
  /\ keyPath' = "none"
  /\ createRequests' = 0
  /\ attempts' = 0
  /\ lastFetch' = "none"
  /\ notFound' = 0
  /\ kclock' = 0
  /\ keyName' = << >>
  /\ integrity' = "none"
  /\ UNCHANGED <<authConfig, backend, script, secure, kmsResults>>
  /\ UNCHANGED <<keyData, versionsData, version, decryptRequests>>
  /\ UNCHANGED <<inputVars, handlerVars, revocationVars, serverVars, traversalVars, codecVars>>
  /\ UNCHANGED <<raceVars, accessVars>>

Unscripted == [on |-> FALSE, steps |-> << >>]

\* The service is not part of the run
KmsIdle ==
  /\ authConfig = AccessToken
  /\ backend = "none"
  /\ script = Unscripted
  /\ kcall = 1
  /\ secure = {}
  /\ kmsResults = << >>
  /\ KmsCallStart

----------------------------------------------------------------------------
(* server.js: createServer and the cache of validator proofs *)

NumRequests == 3

Requests == 1..NumRequests

\* `let cachedValidatorProofs` holds undefined until the first call
Undefined == [defined |-> FALSE, list |-> << >>]

\* An array; every array is truthy, the empty one too
Array(list) == [defined |-> TRUE, list |-> list]

ParsedProof == "delegation"

\* createServer calls getValidatorProofs, which runs up to its first await:
\* a cache that holds an array is returned as it is; otherwise the cache is
\* set to [] and, when a proof is configured, Proof.parse is awaited.
CreateServer(r) ==
  /\ spc[r] = "idle"
  /\ IF cachedValidatorProofs.defined THEN
       /\ validatorProofs' = [validatorProofs EXCEPT ![r] = cachedValidatorProofs]
       /\ spc' = [spc EXCEPT ![r] = "resolved"]
       /\ UNCHANGED cachedValidatorProofs
     ELSE
       /\ cachedValidatorProofs' = Array(<< >>)
       /\ IF UCAN_VALIDATOR_PROOF # "none" THEN
            /\ spc' = [spc EXCEPT ![r] = "parsing"]
            /\ UNCHANGED validatorProofs
          ELSE
            /\ validatorProofs' = [validatorProofs EXCEPT ![r] = Array(<< >>)]
            /\ spc' = [spc EXCEPT ![r] = "resolved"]
  /\ UNCHANGED UCAN_VALIDATOR_PROOF
  /\ UNCHANGED <<inputVars, handlerVars, revocationVars, kmsVars, traversalVars, codecVars>>
  /\ UNCHANGED <<raceVars, accessVars>>

\* Proof.parse settles: the cache is replaced by a new array holding the
\* delegation, or the rejection passes through createServer to index.js
ParseSettles(r) ==
  /\ spc[r] = "parsing"
  /\ IF UCAN_VALIDATOR_PROOF = "valid" THEN
       /\ cachedValidatorProofs' = Array(<<ParsedProof>>)
       /\ validatorProofs' = [validatorProofs EXCEPT ![r] = Array(<<ParsedProof>>)]
       /\ spc' = [spc EXCEPT ![r] = "resolved"]
     ELSE
       /\ spc' = [spc EXCEPT ![r] = "rejected"]
       /\ UNCHANGED <<cachedValidatorProofs, validatorProofs>>
  /\ UNCHANGED UCAN_VALIDATOR_PROOF
  /\ UNCHANGED <<inputVars, handlerVars, revocationVars, kmsVars, traversalVars, codecVars>>
  /\ UNCHANGED <<raceVars, accessVars>>

\* createServer goes on after its await: Server.create({ proofs })
ServerCreated(r) ==
  /\ spc[r] = "resolved"
  /\ spc' = [spc EXCEPT ![r] = "created"]
  /\ UNCHANGED <<UCAN_VALIDATOR_PROOF, cachedValidatorProofs, validatorProofs>>
  /\ UNCHANGED <<inputVars, handlerVars, revocationVars, kmsVars, traversalVars, codecVars>>
  /\ UNCHANGED <<raceVars, accessVars>>

ServerFresh ==
  /\ cachedValidatorProofs = Undefined
  /\ spc = [r \in Requests |-> "idle"]
  /\ validatorProofs = [r \in Requests |-> Undefined]

\* The server is not part of the run
ServerIdle ==
  /\ UCAN_VALIDATOR_PROOF = "none"
  /\ ServerFresh

----------------------------------------------------------------------------
(* verifyDelegationChain: the first pass, one iteration at a time *)

\* From the entry to the while loop: the filter and the two early returns
TraversalBegin ==
  /\ entry = "verifyDelegationChain"
  /\ rpc = "idle"
  /\ LET start == decryptDelegations(invocation.proofs, request.space)
     IN /\ decryptStart' = start
        /\ chainQueue' = start
        /\ rpc' = IF Len(start) = 0 \/ ~env.UPLOAD_SERVICE_URL
                    THEN "returned" ELSE "collecting"
  /\ UNCHANGED <<chainVisited, chainDelegations, revocationQueue, pending, issued,
                 responses, completed, aborted, raceResult, revocationResult>>
  /\ UNCHANGED <<inputVars, handlerVars, kmsVars, serverVars, codecVars>>
  /\ UNCHANGED <<raceVars, accessVars>>

\* Fault: the loop without `if (visited.has(cidStr)) continue`
TraversalStep_revisits ==
  /\ rpc = "collecting"
  /\ chainQueue # << >>
  /\ LET cidStr == Head(chainQueue)
         current == blocks[cidStr]
     IN /\ chainVisited' = chainVisited \cup {cidStr}
        /\ chainDelegations' =
             IF cidStr \notin chainVisited /\ isRelevantToSpace(current, request.space)
               THEN Append(chainDelegations, cidStr) ELSE chainDelegations
        /\ chainQueue' = Tail(chainQueue) \o Filter(current.proofs,
                                          LAMBDA c : isDelegation(blocks[c]))
  /\ UNCHANGED <<rpc, decryptStart, revocationQueue, pending, issued,
                 responses, completed, aborted, raceResult, revocationResult>>
  /\ UNCHANGED <<inputVars, handlerVars, kmsVars, serverVars, codecVars>>
  /\ UNCHANGED <<raceVars, accessVars>>

\* One iteration of `while (queue.length > 0)`
TraversalStep ==
  /\ rpc = "collecting"
  /\ chainQueue # << >>
  /\ LET cidStr == Head(chainQueue)
         current == blocks[cidStr]
     IN IF cidStr \in chainVisited THEN
          /\ chainQueue' = Tail(chainQueue)
          /\ UNCHANGED <<chainVisited, chainDelegations>>
        ELSE
          /\ chainVisited' = chainVisited \cup {cidStr}
          /\ chainDelegations' =
               IF isRelevantToSpace(current, request.space)
                 THEN Append(chainDelegations, cidStr) ELSE chainDelegations
          /\ chainQueue' = Tail(chainQueue) \o Filter(current.proofs,
                                            LAMBDA c : isDelegation(blocks[c]))
  /\ UNCHANGED <<rpc, decryptStart, revocationQueue, pending, issued,
                 responses, completed, aborted, raceResult, revocationResult>>
  /\ UNCHANGED <<inputVars, handlerVars, kmsVars, serverVars, codecVars>>
  /\ UNCHANGED <<raceVars, accessVars>>

\* The loop is left with an empty queue
TraversalEnd ==
  /\ rpc = "collecting"
  /\ chainQueue = << >>
  /\ rpc' = "collected"
  /\ UNCHANGED <<chainQueue, chainVisited, decryptStart, chainDelegations, revocationQueue,
                 pending, issued, responses, completed, aborted, raceResult,
                 revocationResult>>
  /\ UNCHANGED <<inputVars, handlerVars, kmsVars, serverVars, codecVars>>
  /\ UNCHANGED <<raceVars, accessVars>>

\* The first pass is not part of the run
TraversalIdle ==
  /\ chainQueue = << >>
  /\ chainVisited = {}

----------------------------------------------------------------------------
(* decryptSymmetricKey: base64 -> bytes -> multibase *)

\* A base64 string is kept as the sequence of its characters' values in the
\* base64 alphabet, with Pad for '='
Pad == 64

\* The 6-bit groups of a byte string, the last one filled up with zero bits
RECURSIVE Sextets(_)
Sextets(bytes) ==
  IF Len(bytes) = 0 THEN << >>
  ELSE IF Len(bytes) = 1 THEN
    <<bytes[1] \div 4, (bytes[1] % 4) * 16>>
  ELSE IF Len(bytes) = 2 THEN
    <<bytes[1] \div 4, (bytes[1] % 4) * 16 + bytes[2] \div 16, (bytes[2] % 16) * 4>>
  ELSE
    <<bytes[1] \div 4, (bytes[1] % 4) * 16 + bytes[2] \div 16,
      (bytes[2] % 16) * 4 + bytes[3] \div 64, bytes[3] % 64>>
    \o Sextets(SubSeq(bytes, 4, Len(bytes)))

\* Standard base64 with padding, as Google KMS writes `plaintext`
btoa(bytes) ==
  Sextets(bytes) \o [i \in 1..((3 - (Len(bytes) % 3)) % 3) |-> Pad]

\* The bytes of a run of base64 characters without padding
RECURSIVE Octets(_)
Octets(chars) ==
  IF Len(chars) < 2 THEN << >>
  ELSE IF Len(chars) = 2 THEN
    <<chars[1] * 4 + chars[2] \div 16>>
  ELSE IF Len(chars) = 3 THEN
    <<chars[1] * 4 + chars[2] \div 16, (chars[2] % 16) * 16 + chars[3] \div 4>>
  ELSE
    <<chars[1] * 4 + chars[2] \div 16, (chars[2] % 16) * 16 + chars[3] \div 4,
      (chars[3] % 4) * 64 + chars[4]>>
    \o Octets(SubSeq(chars, 5, Len(chars)))

\* Fault: a decoder that drops the bytes of an incomplete last group
atob_wholeGroupsOnly(chars) ==
  LET data == SelectSeq(chars, LAMBDA c : c # Pad)
  IN Octets(SubSeq(data, 1, Len(data) - (Len(data) % 4)))

\* atob and the charCodeAt loop: the padding goes, the bytes come back
atob(chars) == Octets(SelectSeq(chars, LAMBDA c : c # Pad))

\* multiformats/bases/base64: the prefix 'm' and base64 without padding
base64encode(bytes) == [ok |-> TRUE, prefix |-> "m", digits |-> Sextets(bytes)]

DecryptionFailed == [ok |-> FALSE, prefix |-> "", digits |-> << >>]
NoKeyYet == [ok |-> FALSE, prefix |-> "none", digits |-> << >>]

\* The asymmetricDecrypt response: Google KMS returns the plaintext in
\* base64
DecryptResponds ==
  /\ entry = "decryptSymmetricKey"
  /\ cpc = "fetch"
  /\ plaintext' = btoa(symmetricKey)
  /\ cpc' = "response"
  /\ UNCHANGED <<symmetricKey, decryptedKey>>
  /\ UNCHANGED <<inputVars, handlerVars, revocationVars, kmsVars, serverVars,
                 traversalVars>>
  /\ UNCHANGED <<raceVars, accessVars>>

\* After response.json(): a missing or empty plaintext is thrown and comes
\* back from the catch block; otherwise atob, the byte loop, base64.encode
DecryptReencode ==
  /\ cpc = "response"
  /\ decryptedKey' = IF plaintext = << >> THEN DecryptionFailed
                     ELSE base64encode(atob(plaintext))
  /\ cpc' = "done"
  /\ UNCHANGED <<symmetricKey, plaintext>>
  /\ UNCHANGED <<inputVars, handlerVars, revocationVars, kmsVars, serverVars,
                 traversalVars>>
  /\ UNCHANGED <<raceVars, accessVars>>

\* The decryption is not part of the run
CodecIdle ==
  /\ symmetricKey = << >>
  /\ plaintext = << >>
  /\ decryptedKey = NoKeyYet
  /\ cpc = "idle"

----------------------------------------------------------------------------
(* setupKeyForSpace for one space by several requests at once.  Every    *)
(* request has its own worker and service object; Google KMS is shared     *)
(* and answers every request according to the keys it holds.               *)

SetupAt(at, result) == [pc |-> at, result |-> result]
NoResult == [ok |-> FALSE, message |-> "none", publicKey |-> "none"]

\* The existence check of request r
RaceLookup(r) ==
  /\ entry = "concurrentSetup"
  /\ setups[r].pc = "start"
  /\ setups' = [setups EXCEPT ![r] =
                  IF backend # "none" THEN SetupAt("pubkey", NoResult)
                  ELSE SetupAt("create", NoResult)]
  /\ UNCHANGED <<inputVars, handlerVars, revocationVars, kmsVars, serverVars,
                 traversalVars, codecVars, accessVars>>

\* _createNewKey of request r: the create request is answered 409 when the
\* key exists by now, and every response that is not ok is thrown
RaceCreate(r) ==
  /\ entry = "concurrentSetup"
  /\ setups[r].pc = "create"
  /\ IF backend = "none" THEN
       /\ backend' = "pem1"
       /\ setups' = [setups EXCEPT ![r] = SetupAt("pubkey", NoResult)]
     ELSE
       /\ setups' = [setups EXCEPT ![r] =
                       SetupAt("done", KmsFailure("Encryption setup failed"))]
       /\ UNCHANGED backend
  /\ UNCHANGED <<authConfig, script, kpc, kcall, lookupStatus, createStatus, keyPath,
                 createRequests, attempts, lastFetch, notFound, kclock, secure,
                 kmsResults, versionVars, integrity>>
  /\ UNCHANGED <<inputVars, handlerVars, revocationVars, serverVars,
                 traversalVars, codecVars, accessVars>>

\* _fetchAndValidatePublicKey of request r, answered 200 at once
RacePublicKey(r) ==
  /\ entry = "concurrentSetup"
  /\ setups[r].pc = "pubkey"
  /\ setups' = [setups EXCEPT ![r] = SetupAt("done", KmsOk(backend))]
  /\ UNCHANGED <<inputVars, handlerVars, revocationVars, kmsVars, serverVars,
                 traversalVars, codecVars, accessVars>>

\* No concurrent setup is part of the run
RaceIdle == setups = [r \in Requests |-> SetupAt("idle", NoResult)]

\* No access() call has been made
AccessFresh ==
  /\ ucanKmsIdentity = ServiceDID
  /\ accessAuthority = NoAuthority

----------------------------------------------------------------------------
(* The requests of the model *)

\* Capability lists a proof can carry
BlobAddCan == "space/blob/add"

ContentDecryptA == <<Cap(ContentDecryptCan, SpaceA)>>
ContentDecryptB == <<Cap(ContentDecryptCan, SpaceB)>>
BlobAddA == <<Cap(BlobAddCan, SpaceA)>>
BlobAddB == <<Cap(BlobAddCan, SpaceB)>>
PlanGetWeb == <<Cap(PlanGetCan, ServiceDID)>>
ContentDecryptBA == <<Cap(ContentDecryptCan, SpaceB), Cap(ContentDecryptCan, SpaceA)>>

\* The nested proofs of c1, c2 and c3: no nesting, a chain, a sub-delegation
\* shared by two paths, a cycle, and a Link among the nested proofs
Shapes ==
  { <<<< >>, << >>, << >>>>,
    <<<<"c2">>, <<"c3">>, << >>>>,
    <<<<"c2", "c3">>, <<"c3">>, << >>>>,
    <<<<"c2">>, <<"c1">>, << >>>>,
    <<<<"l1", "c3">>, << >>, << >>>> }

Arena(d1, d2, d3) ==
  [cid \in {"c1", "c2", "c3", "l1"} |->
     CASE cid = "c1" -> d1 [] cid = "c2" -> d2 [] cid = "c3" -> d3 [] OTHER -> Link]

\* A chain deeper than the queue's concurrency: c1 <- c2 <- ... <- c6
DeepArena ==
  [cid \in {"c1", "c2", "c3", "c4", "c5", "c6"} |->
     Delegation(IF cid = "c1" THEN ContentDecryptA ELSE BlobAddA,
                MaxTime + 1, Alice,
                CASE cid = "c1" -> <<"c2">> [] cid = "c2" -> <<"c3">>
                  [] cid = "c3" -> <<"c4">> [] cid = "c4" -> <<"c5">>
                  [] cid = "c5" -> <<"c6">> [] OTHER -> << >>)]

FullContext ==
  [ucanKmsIdentity |-> TRUE, ucanPrivacyValidationService |-> TRUE,
   subscriptionStatusService |-> TRUE, revocationStatusClient |-> TRUE,
   kms |-> TRUE]

\* The state of a request that no code has touched yet
Fresh ==
  /\ pc = "start"
  /\ auditLog = << >>
  /\ calls = << >>
  /\ response = NoResponse
  /\ validationResult = NoResponse
  /\ planResult = "none"
  /\ rpc = "idle"
  /\ decryptStart = << >>
  /\ chainDelegations = << >>
  /\ revocationQueue = << >>
  /\ pending = {}
  /\ issued = {}
  /\ responses = [cid \in DOMAIN blocks |-> NotAsked]
  /\ completed = 0
  /\ aborted = FALSE
  /\ raceResult = Pending
  /\ revocationResult = NoResponse

\* The context index.js builds holds every collaborator
InitContext == ctx = FullContext

\* Requests to the two handlers
InitPipeline ==
  /\ InitContext
  /\ KmsIdle
  /\ ServerIdle
  /\ TraversalIdle
  /\ RaceIdle
  /\ AccessFresh
  /\ CodecIdle
  /\ now = MaxTime
  /\ \/ /\ entry = "handleKeyDecryption"
        /\ \E caps \in {<<Cap(EncryptionKeyDecryptCan, SpaceA)>>,
                        <<Cap(EncryptionKeyDecryptCan, SpaceB)>>,
                        <<Cap(EncryptionSetupCan, SpaceA)>>},
              proofs \in {<< >>, <<"c1">>, <<"c1", "c2">>, <<"c2", "c1">>} :
             invocation = [issuer |-> Alice, capabilities |-> caps, proofs |-> proofs]
        /\ \E key \in BOOLEAN :
             request = [space |-> SpaceA, encryptedSymmetricKey |-> key]
        /\ \E url \in BOOLEAN : env = [UPLOAD_SERVICE_URL |-> url]
        /\ \/ \E caps1 \in {ContentDecryptA, ContentDecryptB},
                 exp1 \in {now, now + 1},
                 aud1 \in {Alice, Bob},
                 caps2 \in {ContentDecryptA, BlobAddA, BlobAddB, PlanGetWeb},
                 caps3 \in {BlobAddA, BlobAddB},
                 shape \in Shapes :
                blocks = Arena(Delegation(caps1, exp1, aud1, shape[1]),
                               Delegation(caps2, now + 1, Alice, shape[2]),
                               Delegation(caps3, now + 1, Alice, shape[3]))
           \/ /\ blocks = DeepArena
              /\ invocation.proofs = <<"c1">>
     \/ /\ entry = "handleEncryptionSetup"
        /\ \E caps \in {<<Cap(EncryptionSetupCan, SpaceA)>>,
                        <<Cap(EncryptionSetupCan, SpaceB)>>,
                        <<Cap(EncryptionKeyDecryptCan, SpaceA)>>},
              proofs \in {<< >>, <<"c1">>, <<"c1", "c2">>} :
             invocation = [issuer |-> Alice, capabilities |-> caps, proofs |-> proofs]
        /\ request = [space |-> SpaceA, encryptedSymmetricKey |-> FALSE]
        /\ \E url \in BOOLEAN : env = [UPLOAD_SERVICE_URL |-> url]
        /\ \E caps1 \in {ContentDecryptA, PlanGetWeb}, exp1 \in {now, now + 1} :
             blocks = Arena(Delegation(caps1, exp1, Alice, <<"c2">>),
                            Delegation(PlanGetWeb, now + 1, Alice, << >>),
                            Delegation(BlobAddA, now + 1, Alice, << >>))
  /\ Fresh

Init == InitPipeline

Next ==
  \/ DecryptValidate
  \/ SetupValidate
  \/ Entitlement
  \/ DecryptCheckStatus
  \/ TaskSettlesAny
  \/ StartNext
  \/ VerifyReturns
  \/ DecryptRevocationChecked
  \/ DecryptKms
  \/ SetupKms

Spec == Init /\ [][Next]_vars

\* Direct calls of validateEncryption and validateDecryption
InvocationCapabilities ==
  { << >>,
    <<Cap(EncryptionSetupCan, SpaceA)>>,
    <<Cap(EncryptionSetupCan, SpaceB)>>,
    <<Cap(EncryptionKeyDecryptCan, SpaceA)>>,
    <<Cap(EncryptionKeyDecryptCan, SpaceB)>>,
    <<Cap(EncryptionSetupCan, SpaceB), Cap(EncryptionSetupCan, SpaceA)>>,
    <<Cap(EncryptionKeyDecryptCan, SpaceB), Cap(EncryptionKeyDecryptCan, SpaceA)>>,
    <<Cap(EncryptionSetupCan, SpaceA), Cap(EncryptionKeyDecryptCan, SpaceA)>>,
    <<Cap(ContentDecryptCan, SpaceA), Cap(EncryptionKeyDecryptCan, SpaceA)>> }

InitValidation ==
  /\ InitContext
  /\ KmsIdle
  /\ ServerIdle
  /\ TraversalIdle
  /\ RaceIdle
  /\ ucanKmsIdentity \in {ServiceDID, Authority}
  /\ accessAuthority = NoAuthority
  /\ CodecIdle
  /\ now \in 1..MaxTime
  /\ request = [space |-> SpaceA, encryptedSymmetricKey |-> TRUE]
  /\ env = [UPLOAD_SERVICE_URL |-> TRUE]
  /\ \/ /\ entry = "validateEncryption"
        /\ \E caps \in InvocationCapabilities, proofs \in {<< >>, <<"c1">>} :
             invocation = [issuer |-> Alice, capabilities |-> caps, proofs |-> proofs]
        /\ blocks = Arena(Delegation(ContentDecryptA, MaxTime + 1, Alice, << >>),
                          Delegation(BlobAddA, MaxTime + 1, Alice, << >>),
                          Delegation(BlobAddA, MaxTime + 1, Alice, << >>))
     \/ /\ entry = "validateDecryption"
        /\ \E caps \in InvocationCapabilities,
              proofs \in {<< >>, <<"c1">>, <<"l1", "c1">>, <<"c1", "c2">>} :
             invocation = [issuer |-> Alice, capabilities |-> caps, proofs |-> proofs]
        /\ \E caps1 \in {ContentDecryptA, ContentDecryptB, BlobAddA, ContentDecryptBA},
              exp1 \in 0..(MaxTime + 1),
              aud1 \in {Alice, Bob},
              caps2 \in {ContentDecryptA, BlobAddA},
              exp2 \in 0..(MaxTime + 1),
              aud2 \in {Alice, Bob} :
             blocks = Arena(Delegation(caps1, exp1, aud1, << >>),
                            Delegation(caps2, exp2, aud2, << >>),
                            Delegation(BlobAddA, MaxTime + 1, Alice, << >>))
  /\ Fresh

NextValidation == CallValidateEncryption \/ CallValidateDecryption

SpecValidation == InitValidation /\ [][NextValidation]_vars

\* Direct calls of RevocationStatusClientImpl.checkStatus
InitRevocation ==
  /\ InitContext
  /\ KmsIdle
  /\ ServerIdle
  /\ TraversalIdle
  /\ RaceIdle
  /\ AccessFresh
  /\ CodecIdle
  /\ entry = "checkStatus"
  /\ now = MaxTime
  /\ request = [space |-> SpaceA, encryptedSymmetricKey |-> TRUE]
  /\ \E url \in BOOLEAN : env = [UPLOAD_SERVICE_URL |-> url]
  /\ \/ /\ \E proofs \in {<< >>, <<"c1">>, <<"l1", "c1">>, <<"c1", "c2">>, <<"c2", "c3">>} :
             invocation = [issuer |-> Alice,
                           capabilities |-> <<Cap(EncryptionKeyDecryptCan, SpaceA)>>,
                           proofs |-> proofs]
        /\ \E caps1 \in {ContentDecryptA, ContentDecryptB, ContentDecryptBA},
              exp1 \in {now, now + 1},
              caps2 \in {ContentDecryptA, BlobAddA, BlobAddB, PlanGetWeb},
              caps3 \in {BlobAddA, BlobAddB, PlanGetWeb},
              shape \in Shapes :
             blocks = Arena(Delegation(caps1, exp1, Alice, shape[1]),
                            Delegation(caps2, now + 1, Alice, shape[2]),
                            Delegation(caps3, now + 1, Alice, shape[3]))
     \/ /\ blocks = DeepArena
        /\ invocation = [issuer |-> Alice,
                         capabilities |-> <<Cap(EncryptionKeyDecryptCan, SpaceA)>>,
                         proofs |-> <<"c1">>]
  /\ Fresh

NextRevocation ==
  \/ CallCheckStatus
  \/ TaskSettlesAny
  \/ StartNext
  \/ VerifyReturns
  \/ CheckStatusReturned

SpecRevocation == InitRevocation /\ [][NextRevocation]_vars

\* Direct calls of checkStatus with a delegation for the space among the
\* proofs
InitRevocationLive ==
  /\ InitContext
  /\ KmsIdle
  /\ ServerIdle
  /\ TraversalIdle
  /\ RaceIdle
  /\ AccessFresh
  /\ CodecIdle
  /\ entry = "checkStatus"
  /\ now = MaxTime
  /\ request = [space |-> SpaceA, encryptedSymmetricKey |-> TRUE]
  /\ \E url \in BOOLEAN : env = [UPLOAD_SERVICE_URL |-> url]
  /\ \/ /\ \E proofs \in {<<"c1">>, <<"c1", "c2">>} :
             invocation = [issuer |-> Alice,
                           capabilities |-> <<Cap(EncryptionKeyDecryptCan, SpaceA)>>,
                           proofs |-> proofs]
        /\ \E caps2 \in {ContentDecryptA, BlobAddB}, shape \in Shapes :
             blocks = Arena(Delegation(ContentDecryptA, now + 1, Alice, shape[1]),
                            Delegation(caps2, now + 1, Alice, shape[2]),
                            Delegation(BlobAddA, now + 1, Alice, shape[3]))
     \/ /\ blocks = DeepArena
        /\ invocation = [issuer |-> Alice,
                         capabilities |-> <<Cap(EncryptionKeyDecryptCan, SpaceA)>>,
                         proofs |-> <<"c1">>]
  /\ Fresh

\* The client and the queue take every step they can; when, and whether,
\* the oracle answers a lookup is up to the oracle
SpecRevocationLive ==
  /\ InitRevocationLive
  /\ [][NextRevocation]_vars
  /\ WF_vars(CallCheckStatus)
  /\ WF_vars(StartNext)
  /\ WF_vars(VerifyReturns)
  /\ WF_vars(CheckStatusReturned)

Chars(n, c) == [i \in 1..n |-> c]

\* A space whose key id the backend accepts
KmsSpace == DidKey(Chars(KeyIdLength, "z"))

\* The spaces direct calls are made for: two well-formed ones, and key ids
\* that are too short, too long, empty, or of the right length with a
\* character that is no letter or digit
KmsSpaces ==
  { KmsSpace,
    DidKey(Chars(KeyIdLength - 1, "A") \o <<"9">>),
    DidKey(Chars(KeyIdLength - 1, "z")),
    DidKey(Chars(KeyIdLength + 1, "z")),
    DidKey(<< >>),
    DidKey(Chars(KeyIdLength - 1, "z") \o <<"-">>),
    DidKey(<<"_">> \o Chars(KeyIdLength, "z")),
    <<"did", "key", Chars(KeyIdLength - 9, "z"), Chars(8, "0")>> }

\* Direct calls of GoogleKMSService: one decryptSymmetricKey, or two
\* setupKeyForSpace for the same space
InitKms ==
  /\ InitContext
  /\ entry \in {"setupKeyForSpace", "decryptSymmetricKey"}
  /\ now = MaxTime
  /\ \E space \in KmsSpaces : request = [space |-> space, encryptedSymmetricKey |-> TRUE]
  /\ env = [UPLOAD_SERVICE_URL |-> TRUE]
  /\ invocation = [issuer |-> Alice,
                   capabilities |-> <<Cap(EncryptionSetupCan, SpaceA)>>,
                   proofs |-> << >>]
  /\ blocks = Arena(Delegation(ContentDecryptA, MaxTime + 1, Alice, << >>),
                    Delegation(BlobAddA, MaxTime + 1, Alice, << >>),
                    Delegation(BlobAddA, MaxTime + 1, Alice, << >>))
  /\ Fresh
  /\ authConfig \in {AccessToken, ServiceAccount(TRUE), ServiceAccount(FALSE)}
  /\ backend \in {"none", "pem0"}
  /\ script = Unscripted
  /\ kcall = 1
  /\ secure = {}
  /\ kmsResults = << >>
  /\ KmsCallStart
  /\ ServerIdle
  /\ TraversalIdle
  /\ RaceIdle
  /\ AccessFresh
  /\ CodecIdle

NextKms ==
  \/ KmsSetupLookup
  \/ KmsKeyVersion
  \/ KmsCreate
  \/ KmsFetchAttempt
  \/ KmsFetchSettles
  \/ KmsBackoffEnds
  \/ KmsNextCall
  \/ KmsDecryptKeyVersion
  \/ KmsDecryptActiveVersion
  \/ KmsDecryptPost

SpecKms == InitKms /\ [][NextKms]_vars

\* Requests arriving at a new isolate, each calling createServer
InitServer ==
  /\ InitContext
  /\ entry = "createServer"
  /\ now = MaxTime
  /\ request = [space |-> SpaceA, encryptedSymmetricKey |-> TRUE]
  /\ env = [UPLOAD_SERVICE_URL |-> TRUE]
  /\ invocation = [issuer |-> Alice,
                   capabilities |-> <<Cap(EncryptionSetupCan, SpaceA)>>,
                   proofs |-> << >>]
  /\ blocks = Arena(Delegation(ContentDecryptA, MaxTime + 1, Alice, << >>),
                    Delegation(BlobAddA, MaxTime + 1, Alice, << >>),
                    Delegation(BlobAddA, MaxTime + 1, Alice, << >>))
  /\ Fresh
  /\ KmsIdle
  /\ UCAN_VALIDATOR_PROOF \in {"none", "valid", "invalid"}
  /\ ServerFresh
  /\ TraversalIdle
  /\ RaceIdle
  /\ AccessFresh
  /\ CodecIdle

NextServer ==
  \/ \E r \in Requests : CreateServer(r)
  \/ \E r \in Requests : ParseSettles(r)
  \/ \E r \in Requests : ServerCreated(r)

SpecServer == InitServer /\ [][NextServer]_vars

\* The first pass over the proofs of the requests of InitRevocation
InitTraversal ==
  /\ InitContext
  /\ KmsIdle
  /\ ServerIdle
  /\ TraversalIdle
  /\ RaceIdle
  /\ AccessFresh
  /\ CodecIdle
  /\ entry = "verifyDelegationChain"
  /\ now = MaxTime
  /\ request = [space |-> SpaceA, encryptedSymmetricKey |-> TRUE]
  /\ \E url \in BOOLEAN : env = [UPLOAD_SERVICE_URL |-> url]
  /\ \/ /\ \E proofs \in {<< >>, <<"c1">>, <<"l1", "c1">>, <<"c1", "c2">>, <<"c2", "c3">>} :
             invocation = [issuer |-> Alice,
                           capabilities |-> <<Cap(EncryptionKeyDecryptCan, SpaceA)>>,
                           proofs |-> proofs]
        /\ \E caps1 \in {ContentDecryptA, ContentDecryptB},
              caps2 \in {ContentDecryptA, BlobAddA, BlobAddB, PlanGetWeb},
              caps3 \in {BlobAddA, BlobAddB, PlanGetWeb},
              shape \in Shapes :
             blocks = Arena(Delegation(caps1, now + 1, Alice, shape[1]),
                            Delegation(caps2, now + 1, Alice, shape[2]),
                            Delegation(caps3, now + 1, Alice, shape[3]))
     \/ /\ blocks = DeepArena
        /\ invocation = [issuer |-> Alice,
                         capabilities |-> <<Cap(EncryptionKeyDecryptCan, SpaceA)>>,
                         proofs |-> <<"c1">>]
  /\ Fresh

NextTraversal ==
  \/ TraversalBegin
  \/ TraversalStep
  \/ TraversalEnd

\* The loop is synchronous code: it takes its next step
SpecTraversal == InitTraversal /\ [][NextTraversal]_vars /\ WF_vars(NextTraversal)

\* The bytes of symmetric keys in the model, and their greatest length
KeyBytes == {0, 1, 77, 255}

MaxKeyLen == 4

\* decryptSymmetricKey from the asymmetricDecrypt response on, for a
\* ciphertext a client made of `symmetricKey` under the space's key
InitCodec ==
  /\ InitContext
  /\ KmsIdle
  /\ ServerIdle
  /\ TraversalIdle
  /\ RaceIdle
  /\ AccessFresh
  /\ entry = "decryptSymmetricKey"
  /\ now = MaxTime
  /\ request = [space |-> SpaceA, encryptedSymmetricKey |-> TRUE]
  /\ env = [UPLOAD_SERVICE_URL |-> TRUE]
  /\ invocation = [issuer |-> Alice,
                   capabilities |-> <<Cap(EncryptionKeyDecryptCan, SpaceA)>>,
                   proofs |-> << >>]
  /\ blocks = Arena(Delegation(ContentDecryptA, MaxTime + 1, Alice, << >>),
                    Delegation(BlobAddA, MaxTime + 1, Alice, << >>),
                    Delegation(BlobAddA, MaxTime + 1, Alice, << >>))
  /\ Fresh
  /\ symmetricKey \in UNION {[1..n -> KeyBytes] : n \in 0..MaxKeyLen}
  /\ plaintext = << >>
  /\ decryptedKey = NoKeyYet
  /\ cpc = "fetch"

NextCodec ==
  \/ DecryptResponds
  \/ DecryptReencode

SpecCodec == InitCodec /\ [][NextCodec]_vars

\* Setup requests for one space that has no key yet, each in a worker of
\* its own
InitSetupRace ==
  /\ InitContext
  /\ KmsIdle
  /\ ServerIdle
  /\ TraversalIdle
  /\ CodecIdle
  /\ AccessFresh
  /\ entry = "concurrentSetup"
  /\ now = MaxTime
  /\ request = [space |-> KmsSpace, encryptedSymmetricKey |-> FALSE]
  /\ env = [UPLOAD_SERVICE_URL |-> TRUE]
  /\ invocation = [issuer |-> Alice,
                   capabilities |-> <<Cap(EncryptionSetupCan, SpaceA)>>,
                   proofs |-> << >>]
  /\ blocks = Arena(Delegation(ContentDecryptA, MaxTime + 1, Alice, << >>),
                    Delegation(BlobAddA, MaxTime + 1, Alice, << >>),
                    Delegation(BlobAddA, MaxTime + 1, Alice, << >>))
  /\ Fresh
  /\ \E arrived \in SUBSET Requests :
       setups = [r \in Requests |->
                   SetupAt(IF r \in arrived THEN "start" ELSE "idle", NoResult)]

NextSetupRace ==
  \E r \in Requests :
    \/ RaceLookup(r)
    \/ RaceCreate(r)
    \/ RacePublicKey(r)

SpecSetupRace == InitSetupRace /\ [][NextSetupRace]_vars

\* Requests to the two handlers with a context that lacks the identity or
\* the validation service
InitPartialContext ==
  /\ \E identity \in BOOLEAN, validation \in BOOLEAN :
       ctx = [FullContext EXCEPT !.ucanKmsIdentity = identity,
                                 !.ucanPrivacyValidationService = validation]
  /\ KmsIdle
  /\ ServerIdle
  /\ TraversalIdle
  /\ CodecIdle
  /\ RaceIdle
  /\ AccessFresh
  /\ now = MaxTime
  /\ \E url \in BOOLEAN : env = [UPLOAD_SERVICE_URL |-> url]
  /\ \/ /\ entry = "handleKeyDecryption"
        /\ \E caps \in {<<Cap(EncryptionKeyDecryptCan, SpaceA)>>,
                        <<Cap(EncryptionSetupCan, SpaceA)>>},
              proofs \in {<< >>, <<"c1">>, <<"c1", "c2">>} :
             invocation = [issuer |-> Alice, capabilities |-> caps, proofs |-> proofs]
        /\ \E key \in BOOLEAN :
             request = [space |-> SpaceA, encryptedSymmetricKey |-> key]
        /\ \/ \E exp1 \in {now, now + 1}, aud1 \in {Alice, Bob} :
                blocks = Arena(Delegation(ContentDecryptA, exp1, aud1, <<"c2">>),
                               Delegation(BlobAddA, now + 1, Alice, << >>),
                               Delegation(BlobAddA, now + 1, Alice, << >>))
           \/ /\ blocks = DeepArena
              /\ invocation.proofs = <<"c1">>
              /\ invocation.capabilities = <<Cap(EncryptionKeyDecryptCan, SpaceA)>>
              /\ ctx.ucanKmsIdentity
              /\ ~ctx.ucanPrivacyValidationService
              /\ request.encryptedSymmetricKey
              /\ env.UPLOAD_SERVICE_URL
     \/ /\ entry = "handleEncryptionSetup"
        /\ \E caps \in {<<Cap(EncryptionSetupCan, SpaceA)>>,
                        <<Cap(EncryptionSetupCan, SpaceB)>>,
                        <<Cap(EncryptionKeyDecryptCan, SpaceA)>>},
              proofs \in {<< >>, <<"c1">>} :
             invocation = [issuer |-> Alice, capabilities |-> caps, proofs |-> proofs]
        /\ request = [space |-> SpaceA, encryptedSymmetricKey |-> FALSE]
        /\ blocks = Arena(Delegation(PlanGetWeb, now + 1, Alice, << >>),
                          Delegation(PlanGetWeb, now + 1, Alice, << >>),
                          Delegation(BlobAddA, now + 1, Alice, << >>))
  /\ Fresh

SpecPartialContext == InitPartialContext /\ [][Next]_vars

\* Scripts of the publicKey endpoint: retryable answers, then 200 with a
\* valid key
MaxScript == 3

ScriptSteps == [answer : {"404", "403", "400pending", "500"}, took : {0, 20}]

Scripts ==
  {Append(steps, last) :
     steps \in UNION {[1..n -> ScriptSteps] : n \in 0..MaxScript},
     last \in [answer : {"200"}, took : {0, 20}]}
  \cup {[i \in 1..n |-> [answer |-> IF i = n THEN "200" ELSE "404", took |-> 0]]
          : n \in 1..(Retries + 3)}

\* One setupKeyForSpace against an endpoint that follows a script
InitKmsScripted ==
  /\ InitContext
  /\ entry = "setupKeyForSpace"
  /\ now = MaxTime
  /\ request = [space |-> KmsSpace, encryptedSymmetricKey |-> TRUE]
  /\ env = [UPLOAD_SERVICE_URL |-> TRUE]
  /\ invocation = [issuer |-> Alice,
                   capabilities |-> <<Cap(EncryptionSetupCan, SpaceA)>>,
                   proofs |-> << >>]
  /\ blocks = Arena(Delegation(ContentDecryptA, MaxTime + 1, Alice, << >>),
                    Delegation(BlobAddA, MaxTime + 1, Alice, << >>),
                    Delegation(BlobAddA, MaxTime + 1, Alice, << >>))
  /\ Fresh
  /\ authConfig = AccessToken
  /\ backend \in {"none", "pem0"}
  /\ \E steps \in Scripts : script = [on |-> TRUE, steps |-> steps]
  /\ kcall = 1
  /\ secure = {}
  /\ kmsResults = << >>
  /\ KmsCallStart
  /\ ServerIdle
  /\ TraversalIdle
  /\ RaceIdle
  /\ AccessFresh
  /\ CodecIdle

NextKmsScripted ==
  \/ KmsSetupLookup
  \/ KmsKeyVersion
  \/ KmsCreate
  \/ KmsFetchAttempt
  \/ KmsFetchSettles
  \/ KmsBackoffEnds

\* Every await of the service settles and every timer fires
SpecKmsScripted ==
  InitKmsScripted /\ [][NextKmsScripted]_vars /\ WF_vars(NextKmsScripted)

----------------------------------------------------------------------------
(* Properties *)

DecryptStages ==
  <<"validateDecryption", "isProvisioned", "checkStatus", "decryptSymmetricKey">>

IsPrefix(s, t) == Len(s) <= Len(t) /\ \A i \in 1..Len(s) : s[i] = t[i]

Called(name) == \E i \in 1..Len(calls) : calls[i] = name

\* C1: in the decrypt pipeline the collaborators are called in the order
\* validation, entitlement, revocation, KMS decrypt; each is called only
\* after every earlier stage returned success, so that after a failed stage
\* no later collaborator is called.
C1_DecryptStagesInOrder ==
  entry = "handleKeyDecryption" =>
    /\ IsPrefix(calls, DecryptStages)
    /\ Len(calls) >= 2 => validationResult.ok
    /\ Len(calls) >= 3 => planResult = "ok"
    /\ Len(calls) >= 4 => rpc = "returned" /\ revocationResult.ok

\* A request that passed validation and entitlement and was stopped by the
\* revocation check
C1_Witness ==
  /\ entry = "handleKeyDecryption"
  /\ pc = "done"
  /\ ~response.ok
  /\ calls = <<"validateDecryption", "isProvisioned", "checkStatus">>
  /\ raceResult.revokedDelegation # "none"

Got200(cid) == responses[cid] = Response(200)

\* C2: when the oracle answered 200 for some delegation of the check, the
\* race promise holds the revoked result and the check does not succeed.
C2_Status200IsRevoked ==
  (\E cid \in DOMAIN responses : Got200(cid)) =>
    /\ ~raceResult.isValid
    /\ raceResult.reason = "Delegation explicitly revoked"
    /\ Got200(raceResult.revokedDelegation)
    /\ rpc = "returned" =>
         /\ ~revocationResult.ok
         /\ revocationResult.message = "Delegation explicitly revoked"

\* A check of several delegations, one answered 200 and one 404, has returned
C2_Witness ==
  /\ rpc = "returned"
  /\ ~revocationResult.ok
  /\ \E c1, c2 \in DOMAIN responses :
       Got200(c1) /\ responses[c2] = Response(404)

\* A lookup that ended neither with 200 nor with 404: another status, or a
\* network error (an AbortError is the check's own cancellation)
Ambiguous(outcome) ==
  \/ outcome.kind = "response" /\ outcome.status \notin {200, 404}
  \/ outcome.kind = "error" /\ outcome.name # "AbortError"

\* C3: a check in which some lookup ended with a status other than 200 and
\* 404, or with a network error, never returns success.
C3_AmbiguousIsRevoked ==
  (\E cid \in DOMAIN responses : Ambiguous(responses[cid])) =>
    ~(rpc = "returned" /\ revocationResult.ok)

\* C4: with no oracle base URL the revocation check of the decrypt pipeline
\* fails with the no-URL failure, no lookup is issued, and the KMS is not
\* called: the request is rejected.
C4_NoOracleUrlFailsClosed ==
  (entry = "handleKeyDecryption" /\ ~env.UPLOAD_SERVICE_URL /\ Called("checkStatus")) =>
    /\ rpc = "returned"
    /\ ~revocationResult.ok
    /\ revocationResult.message =
         "No revocation service URL configured - cannot validate delegation status"
    /\ issued = {}
    /\ pending = {}
    /\ ~Called("decryptSymmetricKey")
    /\ pc = "done" => ~response.ok

C4_Witness ==
  /\ entry = "handleKeyDecryption"
  /\ ~env.UPLOAD_SERVICE_URL
  /\ calls = <<"validateDecryption", "isProvisioned", "checkStatus">>
  /\ pc = "done"
  /\ ~response.ok

RECURSIVE ReachableFrom(_, _)
ReachableFrom(frontier, seen) ==
  IF frontier \subseteq seen THEN seen
  ELSE LET new == frontier \ seen
           next == UNION {{c \in Range(blocks[d].proofs) : blocks[c].isDelegation}
                          : d \in new}
       IN ReachableFrom(next, seen \cup new)

Reachable == ReachableFrom(Range(decryptStart), {})

\* The lookup was issued and has settled: the oracle answered or the request
\* failed
LookedUp(cid) == cid \in issued /\ responses[cid].kind # "none"

\* A delegation with a capability on the space itself or on a resource that
\* is no did:key
RelevantTo(cid, spaceDID) ==
  \E i \in 1..Len(blocks[cid].capabilities) :
    LET with == blocks[cid].capabilities[i].with
    IN with = spaceDID \/ ~(with[1] = "did" /\ with[2] = "key")

Succeeded == rpc = "returned" /\ revocationResult.ok

\* C6 as stated: a check succeeds only if every delegation reachable from
\* the start set through nested proofs was looked up.
C6_EveryReachableLookedUp ==
  Succeeded => \A cid \in Reachable : LookedUp(cid)

\* C6, amended: a check succeeds only if an oracle lookup was issued and
\* has settled for every reachable delegation that is relevant to the space
\* (one with a capability on the space or on a resource that is no did:key);
\* reachable delegations with capabilities on other spaces only get none.
C6_EveryRelevantReachableLookedUp ==
  Succeeded =>
    /\ \A cid \in Reachable : RelevantTo(cid, request.space) => LookedUp(cid)
    /\ issued = {cid \in Reachable : RelevantTo(cid, request.space)}

\* A check succeeded after looking up a nested proof, and left a reachable
\* delegation of another space alone
C6_Witness ==
  /\ Succeeded
  /\ Cardinality(issued) >= 2
  /\ \E cid \in Reachable : cid \notin issued

HasContentDecrypt(cid, spaceDID) ==
  /\ blocks[cid].isDelegation
  /\ \E i \in 1..Len(blocks[cid].capabilities) :
       blocks[cid].capabilities[i] = Cap(ContentDecryptCan, spaceDID)

NoRelevantDelegation ==
  /\ rpc = "returned"
  /\ ~revocationResult.ok
  /\ revocationResult.message = "No valid delegations found for space"
  /\ issued = {}

RequiredCan ==
  IF entry = "validateEncryption" THEN EncryptionSetupCan ELSE EncryptionKeyDecryptCan

Validated == pc = "done" /\ entry \in {"validateEncryption", "validateDecryption"}

\* C8: validateEncryption and validateDecryption return ok only if the
\* invocation has the required capability and the `with` of that capability
\* (the first of that name) is the requested space.
C8_RequiredCapabilityOnSpace ==
  (Validated /\ response.ok) =>
    \E i \in 1..Len(invocation.capabilities) :
      /\ invocation.capabilities[i].can = RequiredCan
      /\ invocation.capabilities[i].with = request.space
      /\ \A j \in 1..(i - 1) : invocation.capabilities[j].can # RequiredCan

\* validateEncryption accepted an invocation whose second capability is the
\* setup capability on the space
C8_Witness ==
  /\ Validated
  /\ response.ok
  /\ entry = "validateEncryption"
  /\ Len(invocation.capabilities) = 2

\* C9: validateDecryption accepts only on a delegation whose expiration is
\* later than now, and fails when every delegation carrying the
\* content-decrypt capability for the space has expiration <= now.
C9_ExpiredNeverAccepted ==
  (Validated /\ entry = "validateDecryption") =>
    /\ response.ok =>
         /\ validationResult.chosen \in Range(invocation.proofs)
         /\ HasContentDecrypt(validationResult.chosen, request.space)
         /\ blocks[validationResult.chosen].expiration > now
    /\ (\A cid \in Range(invocation.proofs) :
          HasContentDecrypt(cid, request.space) => blocks[cid].expiration <= now)
       => ~response.ok

\* An otherwise acceptable delegation that expires exactly now was refused
C9_Witness ==
  /\ Validated
  /\ entry = "validateDecryption"
  /\ ~response.ok
  /\ response.message = "No valid ContentDecrypt delegation found in proofs!"
  /\ \E cid \in Range(invocation.proofs) :
       /\ HasContentDecrypt(cid, request.space)
       /\ blocks[cid].expiration = now
       /\ blocks[cid].audience = invocation.issuer

\* C10: when the invocation issuer is not the audience of the delegation
\* validateDecryption chose, it fails with the audience mismatch, never ok.
C10_AudienceMismatchFails ==
  (/\ Validated
   /\ entry = "validateDecryption"
   /\ validationResult.chosen # "none"
   /\ invocation.issuer # blocks[validationResult.chosen].audience) =>
    /\ ~response.ok
    /\ response.message = "The invoker must be equal to the delegated audience!"

C10_Witness ==
  /\ Validated
  /\ entry = "validateDecryption"
  /\ validationResult.chosen # "none"
  /\ blocks[validationResult.chosen].audience = Bob
  /\ blocks[validationResult.chosen].expiration > now
  /\ ~response.ok

GenericValidationMessage ==
  IF entry = "validateEncryption" THEN "Encryption validation failed"
  ELSE "Decryption validation failed"

\* C11: whenever validateEncryption or validateDecryption fails, the message
\* returned to the caller is the fixed generic string of that method,
\* whatever the reason of the failure.
C11_ValidationFailureIsGeneric ==
  (Validated /\ ~response.ok) => response.message = GenericValidationMessage

\* Messages whose text is taken from an internal cause: the message of a
\* caught exception, or the error of the authorization chain
InternalCauseText == {"err.message", "authorization.error"}

PipelineFailed ==
  /\ entry \in {"handleKeyDecryption", "handleEncryptionSetup"}
  /\ pc = "done"
  /\ ~response.ok

\* C12: every failure response of the setup and decrypt pipelines carries a
\* fixed generic message; text from an internal cause never appears in it.
C12_PipelineFailureIsGeneric ==
  PipelineFailed => response.message \notin InternalCauseText

SetupCall == entry = "setupKeyForSpace"

LastResult == kmsResults[Len(kmsResults)]

Returned == kpc = "done" /\ Len(kmsResults) = kcall

\* C13: of two successive setup calls for the same space, the second, coming
\* after a successful first, sends no create-key request and takes the
\* existing-key path, and when it succeeds it returns the public key the
\* first call returned.
C13_SetupIdempotent ==
  (SetupCall /\ kcall = 2 /\ kmsResults[1].ok) =>
    /\ createRequests = 0
    /\ keyPath # "created"
    /\ (Returned /\ LastResult.ok) =>
         /\ keyPath = "existing"
         /\ kmsResults[2].publicKey = kmsResults[1].publicKey

\* The first call created the key, the second returned it again
C13_Witness ==
  /\ SetupCall
  /\ kcall = 2
  /\ Returned
  /\ kmsResults[1].ok
  /\ kmsResults[2].ok
  /\ kmsResults[1].publicKey = "pem1"

FailedWithoutKeyRequests ==
  /\ Returned
  /\ ~LastResult.ok
  /\ createRequests = 0
  /\ attempts = 0

\* C14 as stated: a create-key request is sent if and only if the existence
\* check returned 404; 200 leads to retrieval without creation; every other
\* status fails setup without a create request or a public-key fetch.
C14_CreateIffNotFound ==
  (SetupCall /\ lookupStatus # NoStatus) =>
    /\ createRequests > 0 => lookupStatus = 404
    /\ (lookupStatus = 404 /\ kpc # "create") => createRequests = 1
    /\ lookupStatus = 200 => (keyPath = "existing" /\ createRequests = 0)
    /\ lookupStatus \notin {200, 404} => FailedWithoutKeyRequests

\* C14, amended: a create-key request is sent only if the existence check
\* returned 404, and after a 404 it is sent unless getting the auth headers
\* for it fails; every 2xx status leads to retrieval without creation;
\* every other status, and a rejected fetch, fails setup without a create
\* request or a public-key fetch.
C14_CreateOnlyAfterNotFound ==
  (SetupCall /\ lookupStatus # NoStatus) =>
    /\ createRequests > 0 => lookupStatus = 404
    /\ (lookupStatus = 404 /\ kpc # "create") =>
         \/ createRequests = 1
         \/ FailedWithoutKeyRequests /\ authConfig.type = "service_account"
    /\ lookupStatus \in 200..299 => (keyPath = "existing" /\ createRequests = 0)
    /\ lookupStatus \notin (200..299) \cup {404} => FailedWithoutKeyRequests

\* A 404 was followed by a create request and the new key's public key
C14_Witness ==
  /\ SetupCall
  /\ lookupStatus = 404
  /\ createRequests = 1
  /\ Returned
  /\ LastResult.ok

NonRetryableOutcomes == {"400", "401", "malformed"}

C17_AtMostFiveAttempts == attempts <= 5

\* C18: once the overall deadline of 30 seconds has expired, retrieval is
\* over: no attempt is in flight or about to start and no backoff wait runs.
C18_DeadlineCancelsRetries ==
  (SetupCall /\ kclock >= OverallTimeout) => kpc = "done"

\* C20: when an operation of the service returns, every SecureString made
\* while handling it has been disposed.
C20_SecretsDisposedOnReturn == kpc = "done" => secure = {}

\* The time at which the answer to attempt i arrives, when the attempts
\* before it were answered as the script says
RECURSIVE ArrivesAt(_, _)
ArrivesAt(steps, i) ==
  IF i = 1 THEN steps[1].took
  ELSE ArrivesAt(steps, i - 1) + Backoff(i - 1) + steps[i].took

\* The script gets to its valid key within the attempts pRetry makes and
\* before the overall timeout
WithinRetryBudget(steps) ==
  /\ Len(steps) <= Retries + 1
  /\ ArrivesAt(steps, Len(steps)) < OverallTimeout

\* C15: if the public-key fetch is answered with retryable responses and
\* then, within the retry budget, with 200 and valid key material, setup
\* eventually succeeds.
C15_RetryableThenKeySucceeds ==
  (kpc = "pubkey" /\ attempts = 0 /\ WithinRetryBudget(script.steps))
    ~> (Returned /\ LastResult.ok)

\* 404, 404, 200 ended in success
C15_Witness ==
  /\ script.on
  /\ Len(script.steps) = 3
  /\ script.steps[1].answer = "404"
  /\ script.steps[2].answer = "404"
  /\ attempts = 3
  /\ notFound = 2
  /\ Returned
  /\ LastResult.ok

Obtained(r) == spc[r] \in {"resolved", "created"}

\* C19: requests racing on the first access to the validator-proof cache
\* obtain the same value, and with a proof configured that value is the
\* list holding the parsed proof, never an empty list.
C19_RacingRequestsSeeSameProofs ==
  \A r1, r2 \in Requests :
    (UCAN_VALIDATOR_PROOF = "valid" /\ Obtained(r1) /\ Obtained(r2)) =>
      /\ validatorProofs[r1] = validatorProofs[r2]
      /\ validatorProofs[r1].list = <<ParsedProof>>

HandlerEntry == entry \in {"handleKeyDecryption", "handleEncryptionSetup"}

\* C21: a request handled by the setup or decrypt pipeline has emitted no
\* invocation audit event before it returns and exactly one when it has
\* returned, carrying the outcome of the response.
C21_OneInvocationEvent ==
  HandlerEntry =>
    IF pc = "done"
      THEN Len(auditLog) = 1 /\ auditLog[1].success = response.ok
      ELSE Len(auditLog) = 0

\* A request that was refused by the revocation check, after three stages
C21_Witness ==
  /\ entry = "handleKeyDecryption"
  /\ pc = "done"
  /\ ~response.ok
  /\ Called("checkStatus")
  /\ Len(auditLog) = 1

InFlight == pending \cap issued

\* C22: once a lookup has reported revoked, no step of the check sends a new
\* oracle lookup, and the lookups still outstanding are ones that were in
\* flight already, at most the concurrency limit of them.
C22_NoLookupAfterRevoked ==
  /\ [][aborted => issued' = issued]_vars
  /\ [](aborted => Cardinality(InFlight) <= Concurrency)

\* A task was started after the abort and sent nothing, and the delegation
\* that was still queued at the return was never looked up
C22_Witness ==
  /\ aborted
  /\ rpc = "returned"
  /\ \E cid \in Range(chainDelegations) : cid \notin issued

ReportedRevoked(cid) == responses[cid] = Response(200)

C24_LookedUpOnce ==
  \A i, j \in 1..Len(chainDelegations) :
    chainDelegations[i] = chainDelegations[j] => i = j

\* c3 is reached from c1 and from c2 and was looked up
C24_Witness ==
  /\ "c3" \in Range(blocks["c1"].proofs)
  /\ "c3" \in Range(blocks["c2"].proofs)
  /\ "c2" \in Range(blocks["c1"].proofs)
  /\ "c3" \in Range(chainDelegations)
  /\ responses["c3"].kind = "response"

\* C25: at every moment of a revocation check at most 5 oracle lookups are
\* in flight.
C25_AtMostFiveInFlight == Cardinality(pending) <= 5

\* Five lookups are in flight and a sixth delegation waits in the queue
C25_Witness ==
  /\ Cardinality(InFlight) = 5
  /\ revocationQueue # << >>

AllCompletedNoneRevoked ==
  /\ rpc = "racing"
  /\ \A cid \in Range(chainDelegations) :
       responses[cid] # NotAsked /\ ~ReportedRevoked(cid)

\* C27: if every lookup of a revocation check has completed and none
\* reported revoked, the check eventually returns success.
C27_AllClearReturnsSuccess ==
  AllCompletedNoneRevoked ~> (rpc = "returned" /\ revocationResult.ok)

\* Six lookups were answered 404 and the check returned success
C27_Witness ==
  /\ blocks = DeepArena
  /\ rpc = "returned"
  /\ revocationResult.ok
  /\ \A cid \in DOMAIN blocks : responses[cid] = Response(404)

\* C28: a revocation check that has started its lookups returns, whether or
\* not the oracle answers them.
C28_CheckReturns == (rpc = "racing") ~> (rpc = "returned")

AuthenticationFailure == "KMS authentication failed"

\* C29: a 401 response, at the existence check and at the create-key
\* request alike, fails setup with the authentication failure, and every
\* other non-2xx response that fails setup does so with another failure.
C29_AuthFailureDistinct ==
  (SetupCall /\ Returned /\ ~LastResult.ok /\ attempts = 0) =>
    /\ (lookupStatus = 401 \/ createStatus = 401) =>
         LastResult.message = AuthenticationFailure
    /\ (lookupStatus \notin {NoStatus, 401, 404} \/ createStatus \notin {NoStatus, 401}) =>
         LastResult.message # AuthenticationFailure

\* C26: the first pass over the proof graph ends, for every proof graph of
\* the model, the one with a cycle included.
C26_TraversalTerminates == (rpc = "collecting") ~> (rpc = "collected")

\* The pass over the cycle c1 -> c2 -> c1 ended with both visited
C26_Witness ==
  /\ rpc = "collected"
  /\ "c2" \in Range(blocks["c1"].proofs)
  /\ "c1" \in Range(blocks["c2"].proofs)
  /\ {"c1", "c2"} \subseteq chainVisited

\* C30 as stated: decrypting a ciphertext of bytes B returns the multibase
\* encoding of exactly B, for every B.
C30_RoundTrip ==
  cpc = "done" => decryptedKey = base64encode(symmetricKey)

\* C30, amended: for non-empty B the decryption returns the multibase
\* encoding of exactly B, which is not the backend's padded base64; for
\* empty B it fails.
C30_RoundTripNonEmpty ==
  cpc = "done" =>
    IF symmetricKey = << >> THEN ~decryptedKey.ok
    ELSE /\ decryptedKey.ok
         /\ decryptedKey.prefix = "m"
         /\ decryptedKey.digits = Sextets(symmetricKey)
         /\ Octets(decryptedKey.digits) = symmetricKey
         /\ \A i \in 1..Len(decryptedKey.digits) : decryptedKey.digits[i] # Pad

\* A key whose base64 form is padded came back in multibase
C30_Witness ==
  /\ cpc = "done"
  /\ Len(symmetricKey) = MaxKeyLen
  /\ decryptedKey.ok
  /\ plaintext[Len(plaintext)] = Pad

DecryptCall == entry = "decryptSymmetricKey"

NoneEnabled(versions) == \A i \in 1..Len(versions) : versions[i].state # "ENABLED"

FirstEnabled(versions, i) ==
  /\ i \in 1..Len(versions)
  /\ versions[i].state = "ENABLED"
  /\ \A j \in 1..(i - 1) : versions[j].state # "ENABLED"

KeyIdPart == Join(SubSeq(request.space, 3, Len(request.space)))

WellFormedKeyId == KeyIdPart \in [1..KeyIdLength -> Alphanumeric]

NoBackendRequest ==
  /\ lookupStatus = NoStatus
  /\ createRequests = 0
  /\ attempts = 0
  /\ keyData = "none"
  /\ ~versionsData.asked
  /\ decryptRequests = 0

\* C33: for a space whose key id is not exactly 48 letters and digits, setup
\* and decrypt fail without a request to the backend; a key id a request is
\* made with is the space's key id, unaltered.
C33_InvalidSpaceRejected ==
  /\ (~WellFormedKeyId /\ kpc # "start") =>
       /\ Returned
       /\ ~LastResult.ok
       /\ NoBackendRequest
       /\ keyName = << >>
  /\ keyName # << >> => keyName = KeyIdPart

\* A decrypt call for a key id of 48 characters with a colon among them
\* failed with nothing sent
C33_Witness ==
  /\ DecryptCall
  /\ Returned
  /\ Len(KeyIdPart) = KeyIdLength
  /\ \E i \in 1..Len(KeyIdPart) : KeyIdPart[i] = ":"
  /\ ~LastResult.ok
  /\ NoBackendRequest

\* C32: a public key fetched with a checksum that does not match the one
\* computed locally is returned all the same: the call succeeds with the
\* key of the backend, on the attempt that fetched it.
C32_ChecksumMismatchProceeds ==
  SetupCall =>
    /\ integrity = "bypassed" =>
         /\ lastFetch = "200"
         /\ Returned
         /\ LastResult.ok
         /\ LastResult.publicKey = backend
    /\ lastFetch = "200" => (Returned /\ LastResult.ok)

\* A setup call returned a key whose checksum did not match, after one
\* attempt that was answered 404 and one that was answered 200
C32_Witness ==
  /\ SetupCall
  /\ integrity = "bypassed"
  /\ Returned
  /\ LastResult.ok
  /\ attempts = 2
  /\ notFound = 1

\* C34: of the setup requests that run at once for a space without a key,
\* every one that has returned succeeded, with the public key of the one key
\* the space has.
C34_ConcurrentSetupsSucceed ==
  entry = "concurrentSetup" =>
    \A r \in Requests :
      setups[r].pc = "done" =>
        /\ setups[r].result.ok
        /\ setups[r].result.publicKey = backend
        /\ backend # "none"

DecryptSucceeded ==
  /\ entry = "handleKeyDecryption"
  /\ pc = "done"
  /\ response.ok

\* C35: when a decrypt request succeeds, the delegation the validator chose
\* was looked up at the oracle during the request and the oracle answered
\* 404 for it.
C35_ChosenDelegationNotRevoked ==
  DecryptSucceeded =>
    /\ validationResult.chosen \in issued
    /\ responses[validationResult.chosen] = Response(404)

PastValidation ==
  \/ Called("isProvisioned")
  \/ Called("checkStatus")
  \/ Called("decryptSymmetricKey")
  \/ Called("setupKeyForSpace")

\* C36: the entitlement check, the revocation check and the KMS are reached
\* only after delegation validation ran and returned success, also with a
\* context that lacks the validation service.
C36_NoStageWithoutValidation ==
  PastValidation =>
    /\ Called("validateDecryption") \/ Called("validateEncryption")
    /\ validationResult.ok

\* The invocation names the decrypt capability first on the requested space
DecryptCapabilityOnSpace ==
  \E i \in 1..Len(invocation.capabilities) :
    /\ invocation.capabilities[i].can = EncryptionKeyDecryptCan
    /\ \A j \in 1..(i - 1) : invocation.capabilities[j].can # EncryptionKeyDecryptCan
    /\ invocation.capabilities[i].with = request.space

\* A proof that is an unexpired content-decrypt delegation on the requested
\* space whose audience is the invocation's issuer
QualifyingProof(cid) ==
  /\ hasContentDecrypt(blocks[cid], request.space, now)
  /\ invokerIsAudience(invocation, blocks[cid])

AuthorizationFailures == {"authorization.error", "Decryption validation failed"}

\* C37: validateDecryption does not depend on the order of the proofs: when
\* some proof is a qualifying delegation, the call fails only through the
\* authorization check, also when another matching delegation comes first.
C37_ProofOrderIrrelevant ==
  (/\ Validated
   /\ entry = "validateDecryption"
   /\ DecryptCapabilityOnSpace
   /\ \E i \in 1..Len(invocation.proofs) : QualifyingProof(invocation.proofs[i])) =>
    \/ response.ok
    \/ response.message \in AuthorizationFailures

\* C38: the authority validateDecryption hands to access() is the identity
\* the pipeline passed in as its third argument.
C38_AuthorityIsTheArgument ==
  (entry = "validateDecryption" /\ accessAuthority # NoAuthority) =>
    accessAuthority = ucanKmsIdentity

\* Some earlier request saw Proof.parse reject
ParseFailedBefore == \E q \in Requests : spc[q] = "rejected"

\* C40: after Proof.parse failed on the first access to the cache, a later
\* access does not obtain an empty list: it parses again (and fails again)
\* or obtains the list holding the parsed proof.
C40_NoEmptyListAfterFailedParse ==
  [][\A r \in Requests :
       (ParseFailedBefore /\ spc[r] = "idle" /\ spc'[r] # "idle") =>
         \/ spc'[r] = "parsing"
         \/ validatorProofs'[r].list = <<ParsedProof>>]_vars

====
